---- MODULE Spec2Model ----
(***************************************************************************)
(* rclean: the target-collection and deletion engine (src/src/lib.rs).     *)
(*                                                                         *)
(* A string is a sequence of one-character strings, so that glob matching, *)
(* path joining and prefix tests are computed and not assumed.  A path is  *)
(* a record [abs, comps]: whether it starts at the filesystem root, and    *)
(* its components.  A location is the sequence of names from the           *)
(* filesystem root to an entry: what canonicalization yields.              *)
(***************************************************************************)
EXTENDS Integers, Sequences, FiniteSets, TLC

\* ------------------------------------------------------------------------
\* text and paths

Dot == <<".">>
DotDot == <<".", ".">>

RelPath(comps) == [abs |-> FALSE, comps |-> comps]
AbsPath(comps) == [abs |-> TRUE, comps |-> comps]

\* Path::join with one more component
JoinPath(p, name) == [p EXCEPT !.comps = Append(@, name)]

RECURSIVE JoinComps(_)
JoinComps(cs) ==
    IF cs = <<>> THEN <<>>
    ELSE IF Len(cs) = 1 THEN cs[1]
    ELSE cs[1] \o <<"/">> \o JoinComps(Tail(cs))

\* the text of a path, as the glob matcher and display() see it
PathStr(p) == IF p.abs THEN <<"/">> \o JoinComps(p.comps) ELSE JoinComps(p.comps)

\* Path::starts_with: a whole-component prefix
StartsWith(p, base) ==
    /\ p.abs = base.abs
    /\ Len(base.comps) <= Len(p.comps)
    /\ SubSeq(p.comps, 1, Len(base.comps)) = base.comps

IsPrefix(s, t) == Len(s) <= Len(t) /\ SubSeq(t, 1, Len(s)) = s

\* ------------------------------------------------------------------------
\* glob patterns (globset with its default options: '*' and '?' cross '/',
\* no alternates, no escapes and no ranges in the patterns modelled here)

Tok(t) == [t |-> t, c |-> "", neg |-> FALSE, cs |-> {}]
Lit(c) == [t |-> "Literal", c |-> c, neg |-> FALSE, cs |-> {}]
ClassTok(neg, cs) == [t |-> "Class", c |-> "", neg |-> neg, cs |-> cs]

GlobError == [ok |-> FALSE, tokens |-> <<>>]

\* index of the ']' that closes a class whose members start at j (a ']' in
\* first position is a member), or 0 when the class is never closed
RECURSIVE ClassEnd(_, _, _)
ClassEnd(pat, j, first) ==
    IF j > Len(pat) THEN 0
    ELSE IF pat[j] = "]" /\ ~first THEN j
    ELSE ClassEnd(pat, j + 1, FALSE)

RECURSIVE ParseFrom(_, _, _)
ParseStar(pat, i, toks) ==
    LET n == Len(pat)
        prev == IF i > 1 THEN pat[i - 1] ELSE ""
        two == toks \o <<Tok("ZeroOrMore"), Tok("ZeroOrMore")>>
        last == toks[Len(toks)]
        front == SubSeq(toks, 1, Len(toks) - 1)
    IN  IF i + 1 > n \/ pat[i + 1] # "*"
        THEN ParseFrom(pat, i + 1, Append(toks, Tok("ZeroOrMore")))
        ELSE IF toks = <<>>
        THEN IF i + 2 <= n /\ pat[i + 2] # "/"
             THEN ParseFrom(pat, i + 2, two)
             ELSE ParseFrom(pat, i + 3, <<Tok("RecursivePrefix")>>)
        ELSE IF prev # "/"
        THEN ParseFrom(pat, i + 2, two)
        ELSE IF i + 2 <= n /\ pat[i + 2] # "/"
        THEN ParseFrom(pat, i + 2, two)
        ELSE LET is_suffix == i + 2 > n
                 next == IF is_suffix THEN i + 2 ELSE i + 3
                 tok == IF last.t \in {"RecursivePrefix", "RecursiveSuffix"} THEN last
                        ELSE IF is_suffix THEN Tok("RecursiveSuffix")
                        ELSE Tok("RecursiveZeroOrMore")
             IN  ParseFrom(pat, next, Append(front, tok))

ParseClass(pat, i, toks) ==
    LET neg == i + 1 <= Len(pat) /\ pat[i + 1] \in {"!", "^"}
        from == IF neg THEN i + 2 ELSE i + 1
        end == ClassEnd(pat, from, TRUE)
    IN  IF end = 0 THEN GlobError
        ELSE ParseFrom(pat, end + 1,
                       Append(toks, ClassTok(neg, {pat[k] : k \in from .. end - 1})))

ParseFrom(pat, i, toks) ==
    IF i > Len(pat) THEN [ok |-> TRUE, tokens |-> toks]
    ELSE CASE pat[i] = "?" -> ParseFrom(pat, i + 1, Append(toks, Tok("Any")))
           [] pat[i] = "*" -> ParseStar(pat, i, toks)
           [] pat[i] = "[" -> ParseClass(pat, i, toks)
           [] OTHER -> ParseFrom(pat, i + 1, Append(toks, Lit(pat[i])))

\* Glob::new(pattern)
GlobNew(pat) == ParseFrom(pat, 1, <<>>)

\* the anchored match of tokens i.. against s[j..]
RECURSIVE MatchFrom(_, _, _, _)
MatchFrom(toks, i, s, j) ==
    LET n == Len(s) IN
    IF i > Len(toks) THEN j > n
    ELSE CASE toks[i].t = "Literal" ->
                j <= n /\ s[j] = toks[i].c /\ MatchFrom(toks, i + 1, s, j + 1)
           [] toks[i].t = "Any" ->
                j <= n /\ MatchFrom(toks, i + 1, s, j + 1)
           [] toks[i].t = "Class" ->
                /\ j <= n
                /\ (s[j] \in toks[i].cs) # toks[i].neg
                /\ MatchFrom(toks, i + 1, s, j + 1)
           [] toks[i].t = "ZeroOrMore" ->
                \E k \in j .. n + 1 : MatchFrom(toks, i + 1, s, k)
           [] toks[i].t = "RecursivePrefix" ->
                \/ MatchFrom(toks, i + 1, s, j)
                \/ \E k \in j .. n : s[k] = "/" /\ MatchFrom(toks, i + 1, s, k + 1)
           [] toks[i].t = "RecursiveSuffix" ->
                /\ j <= n
                /\ s[j] = "/"
                /\ \E k \in j + 1 .. n + 1 : MatchFrom(toks, i + 1, s, k)
           [] toks[i].t = "RecursiveZeroOrMore" ->
                /\ j <= n
                /\ s[j] = "/"
                /\ \/ MatchFrom(toks, i + 1, s, j + 1)
                   \/ \E k \in j + 1 .. n : s[k] = "/" /\ MatchFrom(toks, i + 1, s, k + 1)
           [] OTHER -> FALSE

\* GlobMatcher::is_match of one compiled pattern on a path
GlobMatches(pat, path) ==
    LET g == GlobNew(pat) IN g.ok /\ MatchFrom(g.tokens, 1, PathStr(path), 1)

\* GlobSet::is_match: some pattern of the set matches
SetMatches(pats, path) == \E k \in 1 .. Len(pats) : GlobMatches(pats[k], path)

\* ------------------------------------------------------------------------
\* the filesystem: a function from locations to nodes

RootName == <<"r">>
DirName == <<"d">>
PycName == <<"a", ".", "c">>
TxtName == <<"b", ".", "t">>
OutName == <<"o", ".", "t">>
GoneName == <<"m">>

FsRoot == <<>>
OutLoc == <<OutName>>
BaseLoc == <<RootName>>

\* every location an entry can have; GoneName never exists
Locs ==
    { FsRoot, OutLoc, BaseLoc,
      <<RootName, PycName>>, <<RootName, TxtName>>, <<RootName, DirName>>,
      <<RootName, DirName, PycName>>, <<RootName, DirName, TxtName>> }

\* the order in which read_dir lists the names of a directory
NameOrder == <<PycName, TxtName, DirName, RootName, OutName>>

NoPath == RelPath(<<>>)
Absent == [kind |-> "none", size |-> 0, target |-> NoPath, locked |-> FALSE, mtime |-> 0]

NodeAt(f, loc) == IF loc \in DOMAIN f THEN f[loc] ELSE Absent
Exists(f, loc) == NodeAt(f, loc).kind # "none"
Parent(loc) == IF loc = <<>> THEN <<>> ELSE SubSeq(loc, 1, Len(loc) - 1)

\* the locations at or below loc that hold an entry
Subtree(f, loc) == {l \in DOMAIN f : IsPrefix(loc, l) /\ Exists(f, l)}

NoLoc == [ok |-> FALSE, loc |-> <<>>]

\* path resolution, one component at a time: cur is the location reached so
\* far, follow says whether a symlink in last position is followed, fuel
\* bounds the links followed (ELOOP)
RECURSIVE ResolveFrom(_, _, _, _, _)
ResolveFrom(f, cur, comps, follow, fuel) ==
    IF comps = <<>> THEN [ok |-> TRUE, loc |-> cur]
    ELSE IF NodeAt(f, cur).kind # "dir" THEN NoLoc
    ELSE LET c == Head(comps)
             rest == Tail(comps)
             next == Append(cur, c)
             n == NodeAt(f, next)
         IN  IF c = Dot THEN ResolveFrom(f, cur, rest, follow, fuel)
             ELSE IF c = DotDot THEN ResolveFrom(f, Parent(cur), rest, follow, fuel)
             ELSE IF n.kind = "none" THEN NoLoc
             ELSE IF n.kind = "symlink" /\ (rest # <<>> \/ follow)
             THEN IF fuel = 0 THEN NoLoc
                  ELSE LET t == ResolveFrom(f, IF n.target.abs THEN FsRoot ELSE cur,
                                            n.target.comps, TRUE, fuel - 1)
                       IN  IF t.ok THEN ResolveFrom(f, t.loc, rest, follow, fuel)
                           ELSE NoLoc
             ELSE ResolveFrom(f, next, rest, follow, fuel)

Resolve(f, dir, p, follow) ==
    ResolveFrom(f, IF p.abs THEN FsRoot ELSE dir, p.comps, follow, Cardinality(Locs))

\* Path::canonicalize: Ok(absolute location) or Err
Canonicalize(f, dir, p) == Resolve(f, dir, p, TRUE)

\* fs::metadata (follows links) and fs::symlink_metadata (does not):
\* the node, or Absent for Err
Metadata(f, dir, p) ==
    LET r == Resolve(f, dir, p, TRUE) IN IF r.ok THEN NodeAt(f, r.loc) ELSE Absent
SymlinkMetadata(f, dir, p) ==
    LET r == Resolve(f, dir, p, FALSE) IN IF r.ok THEN NodeAt(f, r.loc) ELSE Absent

\* fs_extra::dir::get_size: the summed length of everything that is not a
\* directory, at or below the path, links not followed; 0 stands for Err
RECURSIVE SumSizes(_, _)
SumSizes(f, ls) ==
    IF ls = {} THEN 0
    ELSE LET l == CHOOSE x \in ls : TRUE
         IN  (IF f[l].kind = "dir" THEN 0 ELSE f[l].size) + SumSizes(f, ls \ {l})

GetSize(f, dir, p) ==
    LET r == Resolve(f, dir, p, FALSE) IN IF r.ok THEN SumSizes(f, Subtree(f, r.loc)) ELSE 0

\* mutant of Remove: the removal reports success and takes nothing away
RemoveNothing(f, ls) == f

Remove(f, ls) == [l \in DOMAIN f |-> IF l \in ls THEN Absent ELSE f[l]]

\* fs::remove_file: the outcomes [fs, err], err = "" for Ok
RemoveFile(f, dir, p) ==
    LET r == Resolve(f, dir, p, FALSE) IN
    IF ~r.ok THEN {[fs |-> f, err |-> "NotFound"]}
    ELSE IF NodeAt(f, r.loc).kind = "dir" THEN {[fs |-> f, err |-> "IsADirectory"]}
    ELSE IF NodeAt(f, r.loc).locked THEN {[fs |-> f, err |-> "PermissionDenied"]}
    ELSE {[fs |-> Remove(f, {r.loc}), err |-> ""]}

\* what a recursive removal takes with it: the subtree, links not followed
RemovalSet(f, loc) == Subtree(f, loc)

\* fs::remove_dir_all: removes the whole subtree, or stops at the first
\* entry whose removal is denied, having removed some of the others
RemoveDirAll(f, dir, p) ==
    LET r == Resolve(f, dir, p, FALSE)
        sub == RemovalSet(f, r.loc)
        denied == {l \in sub : f[l].locked}
        stuck == {l \in sub : \E b \in denied : IsPrefix(l, b)}
        closed(S) == \A l \in S : \A m \in sub : IsPrefix(l, m) => m \in S
    IN  IF ~r.ok THEN {[fs |-> f, err |-> "NotFound"]}
        ELSE IF NodeAt(f, r.loc).kind = "symlink" THEN RemoveFile(f, dir, p)
        ELSE IF NodeAt(f, r.loc).kind # "dir" THEN {[fs |-> f, err |-> "NotADirectory"]}
        ELSE IF denied = {} THEN {[fs |-> Remove(f, sub), err |-> ""]}
        ELSE {[fs |-> Remove(f, S), err |-> "PermissionDenied"] :
                 S \in {T \in SUBSET (sub \ stuck) : closed(T)}}

\* ------------------------------------------------------------------------
\* the cleaning job

VARIABLES
    config,            \* CleaningJob.config
    cwd,               \* the process's working directory, a location
    now,               \* SystemTime::now(), in half seconds
    fs,                \* the filesystem
    fs0,               \* the filesystem when the run started
    pc,                \* where run() stands
    result,            \* what run() returned
    base_path,         \* run(): the canonicalized root
    todo,              \* collect_targets: the entries the walk has still to yield
    processed,         \* collect_targets: entries scanned, for the progress bar
    targets,           \* CleaningJob.targets
    size,              \* CleaningJob.size
    counter,           \* CleaningJob.counter
    stats,             \* CleaningJob.stats
    failed_deletions,  \* CleaningJob.failed_deletions
    matched_items,     \* CleaningJob.matched_items
    pending,           \* execute_deletion: targets_to_delete still to iterate
    answer,            \* what the confirmation prompt returned in this run
    attempts,          \* every fs::remove_file / fs::remove_dir_all call of this run
    visited,           \* the paths the walk has yielded in this run
    run_no,            \* 1: the run; 2: the comparison run on the same tree;
                       \* 3: a fresh job on the resulting tree; 4: run() again;
                       \* 5: the comparison run with other observational flags
    first,             \* the outcome of run 1, kept for the comparison
    call,              \* a call of one of the library's free functions
    ret                \* what the call returned

job_vars == <<targets, size, counter, stats, failed_deletions, matched_items>>
run_vars == <<pc, result, base_path, todo, processed, pending, answer, attempts, visited>>
env_vars == <<config, cwd, now, fs, fs0, run_no, first>>
vars == <<config, cwd, now, fs, fs0, pc, result, base_path, todo, processed,
          targets, size, counter, stats, failed_deletions, matched_items,
          pending, answer, attempts, visited, run_no, first, call, ret>>
util_vars == <<call, ret>>

\* no call made, nothing returned
NoCall == [fn |-> "", arg |-> <<>>, dir |-> NoPath, config_dir |-> <<>>]
NoRet == [tag |-> "", value |-> <<>>]

BrokenSymlinkTag == <<"b", "r", "o", "k", "e", "n", "-", "s", "y", "m", "l", "i", "n", "k">>
UnknownTag == <<"u", "n", "k", "n", "o", "w", "n">>

\* Option<u64>::None for older_than_secs
NoAge == -1

CurrentPath == RelPath(<<Dot>>)
ParentPath == RelPath(<<DotDot>>)

\* build_globsets: Err as soon as one include or exclude pattern does not parse
\* mutant of build_globsets: the exclude patterns are not compiled
build_globsets_include_only(cfg) ==
    \A k \in 1 .. Len(cfg.patterns) : GlobNew(cfg.patterns[k]).ok

build_globsets(cfg) ==
    /\ \A k \in 1 .. Len(cfg.patterns) : GlobNew(cfg.patterns[k]).ok
    /\ \A k \in 1 .. Len(cfg.exclude_patterns) : GlobNew(cfg.exclude_patterns[k]).ok

\* mutant of should_process: only "." and ".." themselves are skipped
should_process_names_only(entry_path) ==
    IF entry_path = CurrentPath \/ entry_path = ParentPath THEN FALSE
    ELSE TRUE

should_process(entry_path) ==
    IF entry_path = CurrentPath \/ entry_path = ParentPath THEN FALSE
    ELSE IF StartsWith(entry_path, ParentPath) THEN FALSE
    ELSE TRUE

is_path_safe(f, dir, entry_path, base, is_symlink) ==
    IF is_symlink THEN TRUE
    ELSE LET canonical == Canonicalize(f, dir, entry_path)
         IN  IF canonical.ok /\ ~StartsWith(AbsPath(canonical.loc), base) THEN FALSE
             ELSE TRUE

\* mutant of find_matching_pattern: the last matching pattern wins
find_matching_pattern_last(pats, entry_path) ==
    LET hits == {k \in 1 .. Len(pats) : GlobMatches(pats[k], entry_path)}
    IN  IF hits = {} THEN UnknownTag
        ELSE pats[CHOOSE k \in hits : \A j \in hits : k >= j]

\* find_matching_pattern(..).unwrap_or("unknown"): the first pattern, in
\* declaration order, whose matcher accepts the path
find_matching_pattern(pats, entry_path) ==
    LET hits == {k \in 1 .. Len(pats) : GlobMatches(pats[k], entry_path)}
    IN  IF hits = {} THEN UnknownTag
        ELSE pats[CHOOSE k \in hits : \A j \in hits : k <= j]

\* WalkDir: the entries of a directory, in read_dir order; none when the
\* directory cannot be read
ReadDir(f, dir, entry) ==
    LET r == Resolve(f, dir, entry.path, TRUE)
        names == SelectSeq(NameOrder, LAMBDA n : Exists(f, Append(r.loc, n)))
    IN  IF entry.ty = "dir" /\ r.ok /\ NodeAt(f, r.loc).kind = "dir"
        THEN [k \in 1 .. Len(names) |->
                 [path |-> JoinPath(entry.path, names[k]),
                  ty |-> NodeAt(f, Append(r.loc, names[k])).kind,
                  depth |-> entry.depth + 1]]
        ELSE <<>>

\* WalkDir::new(path): the walk starts with the root itself, at depth 0
WalkRoot(f, dir, path) ==
    LET m == SymlinkMetadata(f, dir, path)
    IN  IF m.kind = "none" THEN <<>>
        ELSE <<[path |-> path, ty |-> m.kind, depth |-> 0]>>

\* collect_targets, the filters of one iteration: whether the entry goes to
\* handle_matched_entry, and with which pattern
\* mutant of MatchEntry: the broken-symlink branch comes after the include,
\* exclude and symlink-policy filters
MatchEntryFiltersFirst(cfg, f, dir, base, entry) ==
    LET entry_path == entry.path
        skip == [handle |-> FALSE, pattern |-> <<>>]
    IN  IF ~should_process(entry_path) THEN skip
        ELSE IF ~SetMatches(cfg.patterns, entry_path) THEN skip
        ELSE IF SetMatches(cfg.exclude_patterns, entry_path) THEN skip
        ELSE IF entry.ty = "symlink" /\ ~cfg.include_symlinks THEN skip
        ELSE IF /\ cfg.remove_broken_symlinks
                /\ SymlinkMetadata(f, dir, entry_path).kind = "symlink"
                /\ Metadata(f, dir, entry_path).kind = "none"
        THEN [handle |-> TRUE, pattern |-> BrokenSymlinkTag]
        ELSE IF ~is_path_safe(f, dir, entry_path, base, entry.ty = "symlink") THEN skip
        ELSE [handle |-> TRUE, pattern |-> find_matching_pattern(cfg.patterns, entry_path)]

\* mutant of MatchEntry: symlinks are not skipped when include_symlinks is off
MatchEntryAnySymlink(cfg, f, dir, base, entry) ==
    LET entry_path == entry.path
        skip == [handle |-> FALSE, pattern |-> <<>>]
    IN  IF ~should_process(entry_path) THEN skip
        ELSE IF /\ cfg.remove_broken_symlinks
                /\ SymlinkMetadata(f, dir, entry_path).kind = "symlink"
                /\ Metadata(f, dir, entry_path).kind = "none"
        THEN [handle |-> TRUE, pattern |-> BrokenSymlinkTag]
        ELSE IF ~SetMatches(cfg.patterns, entry_path) THEN skip
        ELSE IF SetMatches(cfg.exclude_patterns, entry_path) THEN skip
        ELSE IF ~is_path_safe(f, dir, entry_path, base, entry.ty = "symlink") THEN skip
        ELSE [handle |-> TRUE, pattern |-> find_matching_pattern(cfg.patterns, entry_path)]

MatchEntry(cfg, f, dir, base, entry) ==
    LET entry_path == entry.path
        skip == [handle |-> FALSE, pattern |-> <<>>]
    IN  IF ~should_process(entry_path) THEN skip
        ELSE IF /\ cfg.remove_broken_symlinks
                /\ SymlinkMetadata(f, dir, entry_path).kind = "symlink"
                /\ Metadata(f, dir, entry_path).kind = "none"
        THEN [handle |-> TRUE, pattern |-> BrokenSymlinkTag]
        ELSE IF ~SetMatches(cfg.patterns, entry_path) THEN skip
        ELSE IF SetMatches(cfg.exclude_patterns, entry_path) THEN skip
        ELSE IF entry.ty = "symlink" /\ ~cfg.include_symlinks THEN skip
        ELSE IF ~is_path_safe(f, dir, entry_path, base, entry.ty = "symlink") THEN skip
        ELSE [handle |-> TRUE, pattern |-> find_matching_pattern(cfg.patterns, entry_path)]

\* Duration::as_secs of a duration in half seconds
AsSecs(d) == d \div 2

\* handle_matched_entry, the age filter: the entry is too new
\* mutant of TooRecent: an entry exactly as old as the threshold is too recent
TooRecentInclusive(cfg, metadata, clock) ==
    /\ cfg.older_than_secs # NoAge
    /\ metadata.mtime >= 0
    /\ metadata.mtime <= clock
    /\ AsSecs(clock - metadata.mtime) <= cfg.older_than_secs

\* mutant of TooRecent: an entry without an elapsed time is too recent
TooRecentFailClosed(cfg, metadata, clock) ==
    /\ cfg.older_than_secs # NoAge
    /\ \/ metadata.mtime < 0
       \/ metadata.mtime > clock
       \/ AsSecs(clock - metadata.mtime) < cfg.older_than_secs

TooRecent(cfg, metadata, clock) ==
    /\ cfg.older_than_secs # NoAge
    /\ metadata.mtime >= 0                 \* metadata.modified() is Ok
    /\ metadata.mtime <= clock             \* duration_since is Ok
    /\ AsSecs(clock - metadata.mtime) < cfg.older_than_secs

\* mutant of ItemSize: a directory counts as empty
ItemSizeFilesOnly(f, dir, entry_path, metadata) ==
    IF metadata.kind = "file" THEN metadata.size ELSE 0

ItemSize(f, dir, entry_path, metadata) ==
    IF metadata.kind = "file" THEN metadata.size
    ELSE IF metadata.kind = "dir" THEN GetSize(f, dir, entry_path)
    ELSE 0

\* mutant of StatsAdd: the pattern's entry is replaced, not added to
StatsAddOverwrite(st, pattern, item_size) ==
    [k \in DOMAIN st \cup {pattern} |->
        IF k = pattern THEN [count |-> 1, size |-> item_size] ELSE st[k]]

StatsAdd(st, pattern, item_size) ==
    [k \in DOMAIN st \cup {pattern} |->
        LET old == IF k \in DOMAIN st THEN st[k] ELSE [count |-> 0, size |-> 0]
        IN  IF k = pattern
            THEN [count |-> old.count + 1, size |-> old.size + item_size]
            ELSE old]

\* mutant of remove_path: regular files fall through to the unknown types
remove_path_dirs_only(f, dir, path, metadata) ==
    IF metadata.kind = "dir"
    THEN {[fs |-> o.fs, op |-> "remove_dir_all", path |-> path, err |-> o.err] :
             o \in RemoveDirAll(f, dir, path)}
    ELSE IF metadata.kind = "symlink"
    THEN {[fs |-> o.fs, op |-> "remove_file", path |-> path, err |-> o.err] :
             o \in RemoveFile(f, dir, path)}
    ELSE {[fs |-> f, op |-> "skip", path |-> path, err |-> ""]}

\* remove_path: the outcomes [fs, op, path, err]: the call made, the path it
\* was given and its error ("" for Ok); op = "skip" for an unknown type
remove_path(f, dir, path, metadata) ==
    IF metadata.kind = "dir"
    THEN {[fs |-> o.fs, op |-> "remove_dir_all", path |-> path, err |-> o.err] :
             o \in RemoveDirAll(f, dir, path)}
    ELSE IF metadata.kind \in {"file", "symlink"}
    THEN {[fs |-> o.fs, op |-> "remove_file", path |-> path, err |-> o.err] :
             o \in RemoveFile(f, dir, path)}
    ELSE {[fs |-> f, op |-> "skip", path |-> path, err |-> ""]}

\* mutant of remove_entry: the error of the removal is dropped
remove_entry_drops_error(f, dir, entry) ==
    LET target == SymlinkMetadata(f, dir, entry.path)
    IN  IF target.kind = "none"
        THEN {[fs |-> f, op |-> "skip", path |-> entry.path, err |-> ""]}
        ELSE {[o EXCEPT !.err = ""] : o \in remove_path(f, dir, entry.path, target)}

\* remove_entry: entry.metadata() once more, then remove_path
remove_entry(f, dir, entry) ==
    LET target == SymlinkMetadata(f, dir, entry.path)
    IN  IF target.kind = "none"
        THEN {[fs |-> f, op |-> "skip", path |-> entry.path, err |-> ""]}
        ELSE remove_path(f, dir, entry.path, target)

\* mutant of EagerMode: JSON output keeps the job from deleting inline
EagerModeUnlessJson(cfg) == cfg.skip_confirmation /\ ~cfg.dry_run /\ ~cfg.json_mode

\* mutant of EagerMode: the dry_run test is missing
EagerModeSkipOnly(cfg) == cfg.skip_confirmation

\* handle_matched_entry: delete at once instead of buffering
EagerMode(cfg) == cfg.skip_confirmation /\ ~cfg.dry_run

\* mutant of BulkRemoves: the dry_run test is missing
BulkRemovesAlways(cfg) == TRUE

\* execute_deletion: whether the loop removes anything
BulkRemoves(cfg) == ~cfg.dry_run

\* run(): whether the prompt is shown
NeedsConfirmation(cfg, tgts) == tgts # <<>> /\ ~cfg.skip_confirmation

\* mutant of OnAnswer: every answer the prompt returns starts the deletion
OnAnswerProceed(a) ==
    CASE a = "error" -> [pc |-> "done", result |-> "ConfigError(Confirmation failed)"]
      [] OTHER -> [pc |-> "deleting", result |-> ""]

\* run(): what follows the prompt's answer
OnAnswer(a) ==
    CASE a = "yes" -> [pc |-> "deleting", result |-> ""]
      [] a = "no" -> [pc |-> "done", result |-> "Ok"]
      [] OTHER -> [pc |-> "done", result |-> "ConfigError(Confirmation failed)"]

\* mutant of Remaining: the loop stops at the first failure
RemainingAbort(pend, o) == IF o.err # "" THEN <<>> ELSE Tail(pend)

\* execute_deletion: the targets left to iterate after one removal
Remaining(pend, o) == Tail(pend)

\* the bookkeeping of one removal outcome: remove_path records a failure
\* under the path it was called with
Removed(o, path) ==
    /\ fs' = o.fs
    /\ attempts' = IF o.op = "skip" THEN attempts
                   ELSE Append(attempts, [op |-> o.op, path |-> o.path, err |-> o.err])
    /\ failed_deletions' = IF o.err = "" THEN failed_deletions
                           ELSE Append(failed_deletions, [path |-> path, err |-> o.err])

\* CleaningJob::new
NewJob ==
    /\ targets' = <<>>
    /\ size' = 0
    /\ counter' = 0
    /\ stats' = <<>>
    /\ failed_deletions' = <<>>
    /\ matched_items' = <<>>

\* run(), up to the walk: canonicalize the root, then compile the patterns
RunStart ==
    /\ pc = "idle"
    /\ LET canonical == Canonicalize(fs, cwd, config.path)
       IN  IF ~canonical.ok
           THEN /\ result' = "ConfigError(Invalid path)"
                /\ pc' = "done"
                /\ UNCHANGED <<base_path, todo>>
           ELSE IF ~build_globsets(config)
           THEN /\ result' = "GlobError"
                /\ pc' = "done"
                /\ UNCHANGED <<base_path, todo>>
           ELSE /\ base_path' = AbsPath(canonical.loc)
                /\ todo' = WalkRoot(fs, cwd, config.path)
                /\ pc' = "walking"
                /\ UNCHANGED result
    /\ UNCHANGED <<processed, pending, answer, attempts, visited>>
    /\ UNCHANGED job_vars
    /\ UNCHANGED env_vars
    /\ UNCHANGED util_vars

\* collect_targets: one iteration of the loop, handle_matched_entry included
WalkStep ==
    /\ pc = "walking"
    /\ todo # <<>>
    /\ LET entry == Head(todo)
           m == MatchEntry(config, fs, cwd, base_path, entry)
           metadata == SymlinkMetadata(fs, cwd, entry.path)
           counted == m.handle /\ metadata.kind # "none" /\ ~TooRecent(config, metadata, now)
           item_size == ItemSize(fs, cwd, entry.path, metadata)
       IN  /\ processed' = IF config.show_progress THEN processed + 1 ELSE processed
           /\ IF counted
              THEN /\ size' = size + item_size
                   /\ counter' = counter + 1
                   /\ stats' = IF config.stats_mode
                               THEN StatsAdd(stats, m.pattern, item_size) ELSE stats
                   /\ matched_items' =
                         IF config.json_mode
                         THEN Append(matched_items,
                                     [path |-> entry.path, size |-> item_size,
                                      pattern |-> m.pattern])
                         ELSE matched_items
                   /\ IF EagerMode(config)
                      THEN /\ \E o \in remove_entry(fs, cwd, entry) : Removed(o, entry.path)
                           /\ UNCHANGED targets
                      ELSE /\ targets' = Append(targets, [path |-> entry.path,
                                                          metadata |-> metadata])
                           /\ UNCHANGED <<fs, attempts, failed_deletions>>
              ELSE /\ UNCHANGED job_vars
                   /\ UNCHANGED <<fs, attempts>>
           /\ todo' = ReadDir(fs', cwd, entry) \o Tail(todo)
           /\ visited' = visited \cup {entry.path}
    /\ UNCHANGED <<pc, result, base_path, pending, answer>>
    /\ UNCHANGED <<config, cwd, now, fs0, run_no, first>>
    /\ UNCHANGED util_vars

\* run(), after the walk: ask for confirmation when targets are buffered and
\* confirmation is not skipped, otherwise return
Collected ==
    /\ pc = "walking"
    /\ todo = <<>>
    /\ IF NeedsConfirmation(config, targets)
       THEN pc' = "confirming" /\ UNCHANGED result
       ELSE pc' = "done" /\ result' = "Ok"
    /\ UNCHANGED <<base_path, todo, processed, pending, answer, attempts, visited>>
    /\ UNCHANGED job_vars
    /\ UNCHANGED env_vars
    /\ UNCHANGED util_vars

\* run(): the prompt returns true, false or fails; true starts
\* execute_deletion, which takes the targets out of the job
Confirm ==
    /\ pc = "confirming"
    /\ \E a \in {"yes", "no", "error"} :
          /\ answer' = a
          /\ pc' = OnAnswer(a).pc
          /\ IF OnAnswer(a).pc = "deleting"
             THEN /\ pending' = targets
                  /\ targets' = <<>>
                  /\ UNCHANGED result
             ELSE /\ result' = OnAnswer(a).result
                  /\ UNCHANGED <<pending, targets>>
    /\ UNCHANGED <<base_path, todo, processed, attempts, visited>>
    /\ UNCHANGED <<size, counter, stats, failed_deletions, matched_items>>
    /\ UNCHANGED env_vars
    /\ UNCHANGED util_vars

\* execute_deletion: one iteration of the loop over targets_to_delete
DeleteStep ==
    /\ pc = "deleting"
    /\ pending # <<>>
    /\ LET t == Head(pending)
       IN  IF BulkRemoves(config)
           THEN \E o \in remove_path(fs, cwd, t.path, t.metadata) :
                   /\ Removed(o, t.path)
                   /\ pending' = Remaining(pending, o)
           ELSE /\ pending' = Tail(pending)
                /\ UNCHANGED <<fs, attempts, failed_deletions>>
    /\ UNCHANGED <<pc, result, base_path, todo, processed, answer, visited>>
    /\ UNCHANGED <<targets, size, counter, stats, matched_items>>
    /\ UNCHANGED <<config, cwd, now, fs0, run_no, first>>
    /\ UNCHANGED util_vars

\* execute_deletion is through; run() returns Ok
Deleted ==
    /\ pc = "deleting"
    /\ pending = <<>>
    /\ pc' = "done"
    /\ result' = "Ok"
    /\ UNCHANGED <<base_path, todo, processed, pending, answer, attempts, visited>>
    /\ UNCHANGED job_vars
    /\ UNCHANGED env_vars
    /\ UNCHANGED util_vars

\* a second job on the tree the first run started from, with the dry_run
\* flag flipped and everything else equal: the comparison the tests make
\* between a dry run and a real run
Outcome ==
    [config |-> config, result |-> result, answer |-> answer, fs |-> fs,
     counter |-> counter, size |-> size, stats |-> stats,
     matched_items |-> matched_items, failed_deletions |-> failed_deletions,
     attempts |-> attempts, now |-> now, fs0 |-> fs0, targets |-> targets]

CompareRun ==
    /\ pc = "done"
    /\ run_no = 1
    /\ result = "Ok"
    /\ first' = Outcome
    /\ run_no' = 2
    /\ config' = [config EXCEPT !.dry_run = ~@]
    /\ fs' = fs0
    /\ NewJob
    /\ pc' = "idle"
    /\ result' = ""
    /\ answer' = ""
    /\ attempts' = <<>>
    /\ visited' = {}
    /\ processed' = 0
    /\ UNCHANGED <<base_path, todo, pending>>
    /\ UNCHANGED <<cwd, now, fs0>>
    /\ UNCHANGED util_vars

\* CleanError as the caller sees it: the variant, the message without its
\* variable part, and the number the message carries
NoError == [variant |-> "Ok", message |-> "", n |-> 0]

ErrorOf(res) ==
    CASE res = "Ok" -> NoError
      [] res = "GlobError" -> [variant |-> "GlobError", message |-> "", n |-> 0]
      [] res = "ConfigError(Invalid path)" ->
            [variant |-> "ConfigError", message |-> "Invalid path", n |-> 0]
      [] OTHER ->
            [variant |-> "ConfigError", message |-> "Confirmation failed", n |-> 0]

\* CleaningJob::has_failures
has_failures(fd) == fd # <<>>

\* mutant of ExitResult: the failure list is not consulted
ExitResultOfRunOnly(res, fd) == ErrorOf(res)

\* main.rs, run and run_job_from_configfile after job.run(): an error of
\* run() is passed on, and a non-empty failure list becomes an error
ExitResult(res, fd) ==
    IF res # "Ok" THEN ErrorOf(res)
    ELSE IF has_failures(fd)
    THEN [variant |-> "ConfigError", message |-> "deletion(s) failed", n |-> Len(fd)]
    ELSE NoError

\* mutant of to_json: the summary counts the buffered targets
to_json_of_targets ==
    [matches |-> [k \in 1 .. Len(matched_items) |->
                     [path |-> PathStr(matched_items[k].path),
                      size |-> matched_items[k].size,
                      pattern |-> matched_items[k].pattern]],
     summary |-> [total_count |-> Len(targets), total_size |-> size,
                  dry_run |-> config.dry_run],
     stats |-> {[pattern |-> k, count |-> stats[k].count, size |-> stats[k].size] :
                   k \in DOMAIN stats},
     failures |-> [k \in 1 .. Len(failed_deletions) |->
                      [path |-> PathStr(failed_deletions[k].path),
                       error |-> failed_deletions[k].err]]]

\* to_json: the document, before it is printed; paths are shown as text,
\* the statistics come in the map's order, which is not fixed
to_json ==
    [matches |-> [k \in 1 .. Len(matched_items) |->
                     [path |-> PathStr(matched_items[k].path),
                      size |-> matched_items[k].size,
                      pattern |-> matched_items[k].pattern]],
     summary |-> [total_count |-> counter, total_size |-> size,
                  dry_run |-> config.dry_run],
     stats |-> {[pattern |-> k, count |-> stats[k].count, size |-> stats[k].size] :
                   k \in DOMAIN stats},
     failures |-> [k \in 1 .. Len(failed_deletions) |->
                      [path |-> PathStr(failed_deletions[k].path),
                       error |-> failed_deletions[k].err]]]

\* a fresh job with the same configuration on the tree a deleting run left
\* behind; the clock may have moved on, which only a minimum age can observe
FreshRun ==
    /\ pc = "done"
    /\ run_no = 1
    /\ result = "Ok"
    /\ ~config.dry_run
    /\ config.skip_confirmation \/ answer = "yes"
    /\ first' = Outcome
    /\ run_no' = 3
    /\ now' \in IF config.older_than_secs = NoAge THEN {now} ELSE {now, now + 1}
    /\ fs0' = fs
    /\ NewJob
    /\ pc' = "idle"
    /\ result' = ""
    /\ answer' = ""
    /\ attempts' = <<>>
    /\ visited' = {}
    /\ processed' = 0
    /\ UNCHANGED <<base_path, todo, pending>>
    /\ UNCHANGED <<config, cwd, fs>>
    /\ UNCHANGED util_vars

\* run() called once more on the same CleaningJob: the job's fields are
\* what the first run left in them
RunAgain ==
    /\ pc = "done"
    /\ run_no = 1
    /\ first' = Outcome
    /\ run_no' = 4
    /\ fs0' = fs
    /\ pc' = "idle"
    /\ result' = ""
    /\ answer' = ""
    /\ attempts' = <<>>
    /\ processed' = 0
    /\ UNCHANGED job_vars
    /\ UNCHANGED <<base_path, todo, pending, visited>>
    /\ UNCHANGED <<config, cwd, now, fs>>
    /\ UNCHANGED util_vars

\* ------------------------------------------------------------------------
\* the configurations and trees explored

MaxPatterns == 2
MaxExcludes == 1

PycGlob == <<"*", "*", "/", "*", ".", "c">>
TxtGlob == <<"*", "*", "/", "*", ".", "t">>
DirGlob == <<"*", "*", "/", "d">>
SubdirGlob == <<"*", "*", "/", "d", "/", "*", ".", "c">>
StarGlob == <<"*">>
TraversalGlob == <<".", ".", "/", ".", ".", "/", "*", ".", "t">>
BadGlob == <<"[", "c">>

SeqsUpTo(n, S) == UNION {[1 .. k -> S] : k \in 0 .. n}

File(sz) == [kind |-> "file", size |-> sz, target |-> NoPath, locked |-> FALSE, mtime |-> 0]
Dir == [kind |-> "dir", size |-> 0, target |-> NoPath, locked |-> FALSE, mtime |-> 0]
Link(t) == [kind |-> "symlink", size |-> 32, target |-> t, locked |-> FALSE, mtime |-> 0]
Other == [kind |-> "other", size |-> 0, target |-> NoPath, locked |-> FALSE, mtime |-> 0]

Slot(k, sz) ==
    CASE k = "file" -> File(sz)
      [] k = "dir" -> Dir
      [] k = "link_out" -> Link(AbsPath(<<OutName>>))
      [] k = "link_broken" -> Link(AbsPath(<<GoneName>>))
      [] k = "link_in" -> Link(AbsPath(<<RootName, TxtName>>))
      [] k = "link_up" -> Link(AbsPath(<<RootName, PycName>>))
      [] k = "other" -> Other
      [] OTHER -> Absent

\* a tree: the root directory r with a.c, b.t and d/{a.c, b.t} in the given
\* kinds, and o.t outside it; sizes are distinct powers of two
Tree(a, d, da, db) ==
    [l \in Locs |->
        CASE l = FsRoot -> Dir
          [] l = OutLoc -> File(1)
          [] l = BaseLoc -> Dir
          [] l = <<RootName, PycName>> -> Slot(a, 2)
          [] l = <<RootName, TxtName>> -> File(4)
          [] l = <<RootName, DirName>> -> Slot(d, 0)
          [] l = <<RootName, DirName, PycName>> -> IF d = "dir" THEN Slot(da, 8) ELSE Absent
          [] l = <<RootName, DirName, TxtName>> -> IF d = "dir" THEN Slot(db, 16) ELSE Absent]

Lock(t, l) == [t EXCEPT ![l].locked = Exists(t, l)]
Touch(t, l, mt) == [t EXCEPT ![l].mtime = IF Exists(t, l) THEN mt ELSE 0]

Trees ==
    {Tree(a, d, da, db) : a \in {"file", "link_out", "link_broken", "other"},
                          d \in {"none", "dir"},
                          da \in {"file", "link_broken", "link_out"},
                          db \in {"none", "file"}}

Cfg(path, pats, excl, dry, skip, sym, broken) ==
    [path |-> path, patterns |-> pats, exclude_patterns |-> excl,
     dry_run |-> dry, skip_confirmation |-> skip,
     include_symlinks |-> sym, remove_broken_symlinks |-> broken,
     stats_mode |-> TRUE, older_than_secs |-> NoAge,
     show_progress |-> FALSE, json_mode |-> TRUE]

Scenario(cfg, dir, tree) == [config |-> cfg, cwd |-> dir, tree |-> tree, now |-> 10]

AbsRoot == AbsPath(<<RootName>>)

\* every combination of the four behaviour flags, on every tree
FlagScenarios ==
    {Scenario(Cfg(AbsRoot, pe[1], pe[2], dry, skip, sym, broken), FsRoot, t) :
        pe \in {<<<<PycGlob>>, <<>>>>, <<<<DirGlob, PycGlob>>, <<>>>>,
                <<<<PycGlob, DirGlob>>, <<SubdirGlob>>>>, <<<<StarGlob>>, <<>>>>},
        dry \in BOOLEAN, skip \in BOOLEAN, sym \in BOOLEAN, broken \in BOOLEAN,
        t \in Trees}

\* every way of spelling the root: absolute, relative, ".", with a leading
\* "..", missing, a regular file, an entry of the tree; the traversal
\* pattern among the includes
RootScenarios ==
    {Scenario(Cfg(rt[1], pats, <<>>, dry, skip, TRUE, broken), rt[2], t) :
        rt \in {<<AbsRoot, FsRoot>>,
                <<RelPath(<<RootName>>), FsRoot>>,
                <<RelPath(<<Dot>>), BaseLoc>>,
                <<RelPath(<<DotDot, RootName>>), BaseLoc>>,
                <<AbsPath(<<GoneName>>), FsRoot>>,
                <<AbsPath(<<OutName>>), FsRoot>>,
                <<AbsPath(<<RootName, PycName>>), FsRoot>>},
        pats \in {<<PycGlob>>, <<TxtGlob>>, <<StarGlob>>, <<TraversalGlob>>,
                  <<TraversalGlob, PycGlob>>},
        dry \in BOOLEAN, skip \in BOOLEAN, broken \in BOOLEAN,
        t \in {Tree("file", "dir", "file", "none"),
               Tree("link_broken", "none", "file", "none"),
               Tree("link_out", "dir", "link_broken", "file")}}

\* every include and exclude list up to the bounds, invalid patterns included
PatternScenarios ==
    {Scenario(Cfg(AbsRoot, pats, excl, dry, skip, FALSE, FALSE), FsRoot, t) :
        pats \in SeqsUpTo(MaxPatterns, {PycGlob, DirGlob, TxtGlob, BadGlob}),
        excl \in SeqsUpTo(MaxExcludes, {SubdirGlob, PycGlob, BadGlob}),
        dry \in BOOLEAN, skip \in BOOLEAN,
        t \in {Tree("file", "dir", "file", "file"),
               Tree("file", "none", "file", "none")}}

\* one entry whose removal the system denies
LockScenarios ==
    {Scenario(Cfg(AbsRoot, pats, <<>>, dry, skip, TRUE, FALSE), FsRoot, Lock(t, l)) :
        pats \in {<<PycGlob>>, <<DirGlob, PycGlob>>, <<StarGlob>>},
        dry \in BOOLEAN, skip \in BOOLEAN,
        l \in Locs \ {FsRoot, OutLoc, BaseLoc},
        t \in {Tree("file", "dir", "file", "file"),
               Tree("link_out", "dir", "link_broken", "none"),
               Tree("other", "none", "file", "none")}}

\* a minimum age of two seconds, and a.c modified long ago, exactly two
\* seconds ago, a second and a half ago, in the future, or at no known time
AgeScenarios ==
    {Scenario([Cfg(AbsRoot, pats, <<>>, dry, skip, sym, broken)
                   EXCEPT !.older_than_secs = 2],
              FsRoot, Touch(t, <<RootName, PycName>>, mt)) :
        pats \in {<<PycGlob>>, <<TxtGlob>>},
        dry \in BOOLEAN, skip \in BOOLEAN, sym \in BOOLEAN, broken \in BOOLEAN,
        mt \in {0, 6, 7, 12, -1},
        t \in {Tree("file", "none", "file", "none"),
               Tree("link_broken", "dir", "file", "none")}}

\* symlinks whose target is an entry of the tree that the patterns match
LinkScenarios ==
    {Scenario(Cfg(AbsRoot, pats, <<>>, dry, skip, sym, broken), FsRoot, t) :
        pats \in {<<TxtGlob>>, <<PycGlob>>},
        dry \in BOOLEAN, skip \in BOOLEAN, sym \in BOOLEAN, broken \in BOOLEAN,
        t \in {Tree("link_in", "none", "file", "none"),
               Tree("file", "dir", "link_up", "none")}}

\* the observational flags
ViewScenarios ==
    {Scenario([Cfg(AbsRoot, pats, <<>>, dry, skip, FALSE, TRUE)
                   EXCEPT !.stats_mode = st, !.json_mode = js, !.show_progress = pr],
              FsRoot, t) :
        pats \in {<<PycGlob>>, <<DirGlob, PycGlob>>},
        dry \in BOOLEAN, skip \in BOOLEAN,
        st \in BOOLEAN, js \in BOOLEAN, pr \in BOOLEAN,
        t \in {Tree("file", "dir", "file", "file"),
               Tree("link_broken", "dir", "link_broken", "none")}}

\* include patterns that overlap: more than one of them matches a path
TieScenarios ==
    {Scenario(Cfg(AbsRoot, pats, <<>>, dry, TRUE, FALSE, broken), FsRoot, t) :
        pats \in {<<PycGlob, StarGlob>>, <<StarGlob, PycGlob>>,
                  <<SubdirGlob, PycGlob>>, <<PycGlob, SubdirGlob>>},
        dry \in BOOLEAN, broken \in BOOLEAN,
        t \in {Tree("file", "dir", "file", "file"),
               Tree("link_broken", "dir", "file", "none")}}

Scenarios ==
    FlagScenarios \cup RootScenarios \cup PatternScenarios \cup LockScenarios
        \cup AgeScenarios \cup LinkScenarios \cup ViewScenarios \cup TieScenarios

Init ==
    \E s \in Scenarios :
        /\ config = s.config
        /\ cwd = s.cwd
        /\ now = s.now
        /\ fs = s.tree
        /\ fs0 = s.tree
        /\ pc = "idle"
        /\ result = ""
        /\ base_path = AbsPath(<<>>)
        /\ todo = <<>>
        /\ processed = 0
        /\ targets = <<>>
        /\ size = 0
        /\ counter = 0
        /\ stats = <<>>
        /\ failed_deletions = <<>>
        /\ matched_items = <<>>
        /\ pending = <<>>
        /\ answer = ""
        /\ attempts = <<>>
        /\ visited = {}
        /\ run_no = 1
        /\ call = NoCall
        /\ ret = NoRet
        /\ first = [config |-> s.config, result |-> "", answer |-> "", fs |-> s.tree,
                    counter |-> 0, size |-> 0, stats |-> <<>>, matched_items |-> <<>>,
                    failed_deletions |-> <<>>, attempts |-> <<>>, now |-> s.now,
                    fs0 |-> s.tree, targets |-> <<>>]

Next ==
    \/ RunStart
    \/ WalkStep
    \/ Collected
    \/ Confirm
    \/ DeleteStep
    \/ Deleted
    \/ CompareRun
    \/ FreshRun
    \/ RunAgain

Spec == Init /\ [][Next]_vars

\* ------------------------------------------------------------------------
\* runs that differ in the observational flags only

\* a second job on the tree the first run started from, with other values
\* of stats_mode, json_mode and show_progress and everything else equal
CompareView ==
    /\ pc = "done"
    /\ run_no = 1
    /\ result = "Ok"
    /\ \E st \in BOOLEAN, js \in BOOLEAN, pr \in BOOLEAN :
          /\ config' = [config EXCEPT !.stats_mode = st, !.json_mode = js,
                                      !.show_progress = pr]
          /\ config' # config
    /\ first' = Outcome
    /\ run_no' = 5
    /\ fs' = fs0
    /\ NewJob
    /\ pc' = "idle"
    /\ result' = ""
    /\ answer' = ""
    /\ attempts' = <<>>
    /\ visited' = {}
    /\ processed' = 0
    /\ UNCHANGED <<base_path, todo, pending>>
    /\ UNCHANGED <<cwd, now, fs0>>
    /\ UNCHANGED util_vars

ViewInit ==
    /\ Init
    /\ \E s \in ViewScenarios \cup LockScenarios \cup TieScenarios :
          config = s.config /\ cwd = s.cwd /\ fs = s.tree

ViewNext == Next \/ CompareView

ViewSpec == ViewInit /\ [][ViewNext]_vars

\* ------------------------------------------------------------------------
\* a tree that another process modifies during the walk

\* the entry the walk has listed and not yet visited, where it is on disk
NextEntryLoc == Resolve(fs, cwd, Head(todo).path, FALSE)

\* between the listing of an entry and its visit another process removes
\* it, or puts a symlink with a missing target in its place; one such
\* change, to the tree of a first run that nothing has touched yet
Interfere ==
    /\ pc = "walking"
    /\ run_no = 1
    /\ fs = fs0
    /\ todo # <<>>
    /\ Head(todo).depth > 0
    /\ Head(todo).ty \in {"file", "dir"}
    /\ NextEntryLoc.ok
    /\ NodeAt(fs, NextEntryLoc.loc).kind = Head(todo).ty
    /\ \E put \in {Absent, Link(AbsPath(<<GoneName>>))} :
          fs' = [l \in DOMAIN fs |->
                    IF l = NextEntryLoc.loc THEN put
                    ELSE IF l \in Subtree(fs, NextEntryLoc.loc) THEN Absent
                    ELSE fs[l]]
    /\ UNCHANGED <<config, cwd, now, fs0, run_no, first>>
    /\ UNCHANGED run_vars
    /\ UNCHANGED job_vars
    /\ UNCHANGED util_vars

RaceScenarios ==
    {Scenario(Cfg(AbsRoot, pats, <<>>, dry, skip, FALSE, broken), FsRoot,
              Tree("file", "dir", "file", "file")) :
        pats \in {<<PycGlob>>, <<DirGlob, PycGlob>>},
        dry \in BOOLEAN, skip \in BOOLEAN, broken \in BOOLEAN}

RaceInit ==
    /\ Init
    /\ \E s \in RaceScenarios : config = s.config /\ cwd = s.cwd /\ fs = s.tree

RaceNext == Next \/ Interfere

RaceSpec == RaceInit /\ [][RaceNext]_vars

\* ------------------------------------------------------------------------
\* the free functions: parse_duration

\* characters are one-character strings; one stands for a character that
\* takes two bytes in UTF-8, such as U+00B5
TwoByteChar == "U+00B5"
ByteLen(c) == IF c = TwoByteChar THEN 2 ELSE 1

\* str::len, in bytes
RECURSIVE StrLen(_)
StrLen(cs) == IF cs = <<>> THEN 0 ELSE ByteLen(Head(cs)) + StrLen(Tail(cs))

IsSpace(c) == c \in {" ", "\t", "\n"}

RECURSIVE TrimStart(_)
TrimStart(cs) == IF cs # <<>> /\ IsSpace(Head(cs)) THEN TrimStart(Tail(cs)) ELSE cs

RECURSIVE TrimEnd(_)
TrimEnd(cs) ==
    IF cs # <<>> /\ IsSpace(cs[Len(cs)]) THEN TrimEnd(SubSeq(cs, 1, Len(cs) - 1)) ELSE cs

\* str::trim
Trim(cs) == TrimEnd(TrimStart(cs))

DigitChars == <<"0", "1", "2", "3", "4", "5", "6", "7", "8", "9">>
IsDigit(c) == \E d \in 1 .. Len(DigitChars) : DigitChars[d] = c
DigitVal(c) == (CHOOSE d \in 1 .. Len(DigitChars) : DigitChars[d] = c) - 1

\* u64 values are kept as sequences of decimal digits, most significant
\* first and without leading zeros, so that they keep their full width
RECURSIVE Norm(_)
Norm(ds) ==
    IF ds = <<>> THEN <<0>>
    ELSE IF Len(ds) > 1 /\ ds[1] = 0 THEN Norm(Tail(ds))
    ELSE ds

Ge(a, b) ==
    \/ Len(a) > Len(b)
    \/ /\ Len(a) = Len(b)
       /\ \/ a = b
          \/ \E i \in 1 .. Len(a) : a[i] > b[i] /\ \A j \in 1 .. i - 1 : a[j] = b[j]

RECURSIVE Digits(_)
Digits(n) == IF n = 0 THEN <<>> ELSE Append(Digits(n \div 10), n % 10)

RECURSIVE MulFrom(_, _, _, _)
MulFrom(a, k, i, carry) ==
    IF i = 0 THEN Digits(carry)
    ELSE LET v == a[i] * k + carry
         IN  Append(MulFrom(a, k, i - 1, v \div 10), v % 10)

\* a * k
MulSmall(a, k) == Norm(MulFrom(a, k, Len(a), 0))

RECURSIVE SubFrom(_, _, _, _)
SubFrom(a, b, i, borrow) ==
    IF i = 0 THEN <<>>
    ELSE LET v == a[i] - b[i] - borrow
         IN  Append(SubFrom(a, b, i - 1, IF v < 0 THEN 1 ELSE 0),
                    IF v < 0 THEN v + 10 ELSE v)

\* a - b, for a >= b
Sub(a, b) ==
    LET pad == Len(a) - Len(b)
        bp == [i \in 1 .. Len(a) |-> IF i <= pad THEN 0 ELSE b[i - pad]]
    IN  Norm(SubFrom(a, bp, Len(a), 0))

RECURSIVE Reduce(_, _)
Reduce(r, d) == IF Ge(r, d) THEN Reduce(Sub(r, d), d) ELSE r

RECURSIVE ModFrom(_, _, _, _)
ModFrom(a, d, i, r) ==
    IF i > Len(a) THEN r
    ELSE LET next == Reduce(Norm(Append(r, a[i])), d)
         IN  IF Len(next) > 0 THEN ModFrom(a, d, i + 1, next) ELSE next

\* a mod d
Mod(a, d) == ModFrom(a, d, 1, <<0>>)

\* u64::MAX and 2^64
U64Max == <<1, 8, 4, 4, 6, 7, 4, 4, 0, 7, 3, 7, 0, 9, 5, 5, 1, 6, 1, 5>>
TwoTo64 == <<1, 8, 4, 4, 6, 7, 4, 4, 0, 7, 3, 7, 0, 9, 5, 5, 1, 6, 1, 6>>

DurationOk(v) == [tag |-> "Ok", value |-> v]
DurationErr == [tag |-> "ConfigError", value |-> <<>>]
Panic == [tag |-> "panic", value |-> <<>>]

\* str::parse::<u64>: an optional "+", then one or more digits, the value
\* at most u64::MAX
ParseU64(cs) ==
    LET body == IF cs # <<>> /\ cs[1] = "+" THEN Tail(cs) ELSE cs
    IN  IF body = <<>> \/ \E i \in 1 .. Len(body) : ~IsDigit(body[i])
        THEN [ok |-> FALSE, value |-> <<>>]
        ELSE LET n == Norm([i \in 1 .. Len(body) |-> DigitVal(body[i])])
             IN  IF Ge(U64Max, n) THEN [ok |-> TRUE, value |-> n]
                 ELSE [ok |-> FALSE, value |-> <<>>]

\* the multiplier of a unit, 0 for no unit
Multiplier(unit) ==
    CASE unit = "s" -> 1
      [] unit = "m" -> 60
      [] unit = "h" -> 3600
      [] unit = "d" -> 86400
      [] unit = "w" -> 604800
      [] OTHER -> 0

\* u64 * u64: the product, or on overflow a panic (overflow checks on) or
\* the product modulo 2^64 (overflow checks off)
MulU64(a, k) ==
    LET product == MulSmall(a, k)
    IN  IF Ge(U64Max, product) THEN {DurationOk(product)}
        ELSE {Panic, DurationOk(Mod(product, TwoTo64))}

\* parse_duration: the outcomes
parse_duration(input) ==
    LET duration == Trim(input)
    IN  IF duration = <<>> THEN {DurationErr}
        ELSE IF StrLen(duration) < 2 THEN {DurationErr}
        ELSE IF ByteLen(duration[Len(duration)]) # 1 THEN {Panic}
        ELSE LET number == ParseU64(SubSeq(duration, 1, Len(duration) - 1))
                 unit_part == duration[Len(duration)]
             IN  IF ~number.ok THEN {DurationErr}
                 ELSE IF Multiplier(unit_part) = 0 THEN {DurationErr}
                 ELSE MulU64(number.value, Multiplier(unit_part))

\* the call of parse_duration returns
ParseDuration ==
    /\ call.fn = "parse_duration"
    /\ ret = NoRet
    /\ ret' \in parse_duration(call.arg)
    /\ UNCHANGED call
    /\ UNCHANGED <<job_vars, run_vars, env_vars>>

\* the inputs: every text up to a length over a small alphabet, and numbers
\* at the edges of u64
MaxDurationLen == 3
DurationChars == {"0", "1", "9", "s", "m", "w", "x", " ", "+", "-", ".", TwoByteChar}

DigitText(ds) == [i \in 1 .. Len(ds) |-> DigitChars[ds[i] + 1]]

LongDurations ==
    {DigitText(n) \o <<u>> :
        n \in {U64Max, TwoTo64,
               <<3, 0, 5, 0, 0, 5, 6, 8, 9, 0, 4, 9, 4, 3>>,
               <<3, 0, 5, 0, 0, 5, 6, 8, 9, 0, 4, 9, 4, 4>>,
               <<3, 0, 7, 4, 4, 5, 7, 3, 4, 5, 6, 1, 8, 2, 5, 8, 6, 0>>,
               <<3, 0, 7, 4, 4, 5, 7, 3, 4, 5, 6, 1, 8, 2, 5, 8, 6, 1>>,
               <<2, 5, 9, 2, 0, 0, 0>>},
        u \in {"s", "m", "h", "d", "w"}}

DurationInputs == SeqsUpTo(MaxDurationLen, DurationChars) \cup LongDurations

\* a job that is constructed and never run, in a working directory and on a
\* tree
IdleJob(dir, tree) ==
    /\ \E s \in {Scenario(Cfg(AbsRoot, <<PycGlob>>, <<>>, TRUE, TRUE, FALSE, FALSE),
                          dir, tree)} :
          /\ config = s.config
          /\ cwd = s.cwd
          /\ now = s.now
          /\ fs = s.tree
          /\ fs0 = s.tree
          /\ first = [config |-> s.config, result |-> "", answer |-> "", fs |-> s.tree,
                      counter |-> 0, size |-> 0, stats |-> <<>>, matched_items |-> <<>>,
                      failed_deletions |-> <<>>, attempts |-> <<>>, now |-> s.now,
                      fs0 |-> s.tree, targets |-> <<>>]
    /\ pc = "idle"
    /\ result = ""
    /\ base_path = AbsPath(<<>>)
    /\ todo = <<>>
    /\ processed = 0
    /\ targets = <<>>
    /\ size = 0
    /\ counter = 0
    /\ stats = <<>>
    /\ failed_deletions = <<>>
    /\ matched_items = <<>>
    /\ pending = <<>>
    /\ answer = ""
    /\ attempts = <<>>
    /\ visited = {}
    /\ run_no = 1

DurationInit ==
    /\ IdleJob(FsRoot, Tree("file", "none", "file", "none"))
    /\ \E input \in DurationInputs :
          call = [NoCall EXCEPT !.fn = "parse_duration", !.arg = input]
    /\ ret = NoRet

DurationNext == ParseDuration

DurationSpec == DurationInit /\ [][DurationNext]_vars

\* ------------------------------------------------------------------------
\* the free functions: find_config_upward, global_config_path, discover_config

SETTINGS_FILENAME == <<".", "r", "c", "l", "e", "a", "n", ".", "t", "o", "m", "l">>
HomeName == <<"h">>
ConfigDirName == <<".", "c", "o", "n", "f", "i", "g">>
RcleanName == <<"r", "c", "l", "e", "a", "n">>
ConfigTomlName == <<"c", "o", "n", "f", "i", "g", ".", "t", "o", "m", "l">>

Some(path) == [tag |-> "Some", value |-> path]
None == [tag |-> "None", value |-> <<>>]

\* Path::is_file: the path resolves, links followed, to a regular file
is_file(f, dir, p) == Metadata(f, dir, p).kind = "file"

\* PathBuf::pop: the path without its last component
Pop(p) == [p EXCEPT !.comps = SubSeq(@, 1, Len(@) - 1)]

RECURSIVE find_config_upward(_, _, _, _)
find_config_upward(f, wd, dir, filename) ==
    LET candidate == JoinPath(dir, filename)
    IN  IF is_file(f, wd, candidate) THEN Some(candidate)
        ELSE IF dir.comps = <<>> THEN None
        ELSE find_config_upward(f, wd, Pop(dir), filename)

\* config_dir is dirs::config_dir(): no path or one path
global_config_path(f, wd, config_dir) ==
    IF config_dir = <<>> THEN None
    ELSE LET p == JoinPath(JoinPath(config_dir[1], RcleanName), ConfigTomlName)
         IN  IF is_file(f, wd, p) THEN Some(p) ELSE None

discover_config(f, wd, start_dir, config_dir) ==
    LET upward == find_config_upward(f, wd, start_dir, SETTINGS_FILENAME)
    IN  IF upward # None THEN upward ELSE global_config_path(f, wd, config_dir)

\* the call of find_config_upward returns
FindConfigUpward ==
    /\ call.fn = "find_config_upward"
    /\ ret = NoRet
    /\ ret' = find_config_upward(fs, cwd, call.dir, call.arg)
    /\ UNCHANGED call
    /\ UNCHANGED <<job_vars, run_vars, env_vars>>

\* the call of discover_config returns
DiscoverConfig ==
    /\ call.fn = "discover_config"
    /\ ret = NoRet
    /\ ret' = discover_config(fs, cwd, call.dir, call.config_dir)
    /\ UNCHANGED call
    /\ UNCHANGED <<job_vars, run_vars, env_vars>>

\* the trees of config discovery: the directories /, /r, /r/d and
\* /h/.config/rclean, the file /o.t, and an entry of a given kind called
\* .rclean.toml in each of /, /r, /r/d, and called config.toml in
\* /h/.config/rclean
ConfigSlot(k) ==
    CASE k = "file" -> File(1)
      [] k = "dir" -> Dir
      [] k = "link_file" -> Link(AbsPath(<<OutName>>))
      [] k = "link_dir" -> Link(AbsPath(<<RootName>>))
      [] k = "link_broken" -> Link(AbsPath(<<GoneName>>))
      [] OTHER -> Absent

ConfigDir == AbsPath(<<HomeName, ConfigDirName>>)

ConfigLocs ==
    { FsRoot, OutLoc, BaseLoc, <<RootName, DirName>>,
      <<SETTINGS_FILENAME>>, <<RootName, SETTINGS_FILENAME>>,
      <<RootName, DirName, SETTINGS_FILENAME>>,
      <<HomeName>>, <<HomeName, ConfigDirName>>, <<HomeName, ConfigDirName, RcleanName>>,
      <<HomeName, ConfigDirName, RcleanName, ConfigTomlName>> }

ConfigTree(top, mid, low, global) ==
    [l \in ConfigLocs |->
        CASE l = <<SETTINGS_FILENAME>> -> ConfigSlot(top)
          [] l = <<RootName, SETTINGS_FILENAME>> -> ConfigSlot(mid)
          [] l = <<RootName, DirName, SETTINGS_FILENAME>> -> ConfigSlot(low)
          [] l = <<HomeName, ConfigDirName, RcleanName, ConfigTomlName>> -> ConfigSlot(global)
          [] l = OutLoc -> File(1)
          [] OTHER -> Dir]

ConfigKinds == {"none", "file", "dir", "link_file", "link_dir", "link_broken"}

\* the directories a search starts from: absolute, with a parent
\* component, missing, relative and empty
StartDirs ==
    { AbsPath(<<RootName, DirName>>), AbsPath(<<RootName>>), AbsPath(<<>>),
      AbsPath(<<RootName, DirName, DotDot>>), AbsPath(<<RootName, GoneName>>),
      RelPath(<<DirName>>), RelPath(<<RootName, DirName>>), RelPath(<<>>) }

ConfigInit ==
    /\ \E top \in ConfigKinds, mid \in ConfigKinds, low \in ConfigKinds,
          global \in {"none", "file", "dir"}, wd \in {FsRoot, BaseLoc},
          start \in StartDirs :
          /\ IdleJob(wd, ConfigTree(top, mid, low, global))
          /\ \/ /\ global = "none"
                /\ \E name \in {SETTINGS_FILENAME, OutName} :
                      call = [NoCall EXCEPT !.fn = "find_config_upward",
                                            !.arg = name, !.dir = start]
             \/ \E config_dir \in {<<>>, <<ConfigDir>>} :
                   call = [NoCall EXCEPT !.fn = "discover_config", !.dir = start,
                                         !.config_dir = config_dir]
    /\ ret = NoRet

ConfigNext == FindConfigUpward \/ DiscoverConfig

ConfigSpec == ConfigInit /\ [][ConfigNext]_vars

\* ------------------------------------------------------------------------
\* the claims

\* the root as the run resolves it, on the tree the run started from
RootCanon == Canonicalize(fs0, cwd, config.path)
RootLoc == RootCanon.loc
UnderRoot(l) == RootCanon.ok /\ IsPrefix(RootLoc, l)

\* the path under which the walk yields the entry at location l
WalkPathOf(l) == [config.path EXCEPT !.comps = @ \o SubSeq(l, Len(RootLoc) + 1, Len(l))]

Inc(l) == SetMatches(config.patterns, WalkPathOf(l))
Exc(l) == SetMatches(config.exclude_patterns, WalkPathOf(l))

\* the entry at l passes every filter that stands between a pattern match
\* and a removal: the lexical guard, include, exclude and the age filter
Targeted(l) ==
    /\ should_process(WalkPathOf(l))
    /\ Inc(l)
    /\ ~Exc(l)
    /\ ~TooRecent(config, fs0[l], now)

FilesUnderRoot == {l \in Locs : UnderRoot(l) /\ fs0[l].kind = "file"}
PathsOf(seq) == {seq[k].path : k \in 1 .. Len(seq)}
Finished == pc = "done" /\ result = "Ok"
DeletingRun == ~config.dry_run /\ (config.skip_confirmation \/ answer = "yes")

\* C1: a run with dry_run = true makes no remove_file / remove_dir_all call,
\* records no failure, and every entry that existed before the run exists
\* after it, whatever the other flags and whatever the prompt answers
C1_DryRunNeverMutates ==
    config.dry_run =>
        /\ attempts = <<>>
        /\ failed_deletions = <<>>
        /\ \A l \in Locs : Exists(fs0, l) => Exists(fs, l)

\* a dry run that found targets, was confirmed with "yes" and went through
\* execute_deletion
C1_Witness ==
    /\ config.dry_run
    /\ pc = "done"
    /\ answer = "yes"
    /\ counter > 1
    /\ config.include_symlinks
    /\ config.remove_broken_symlinks

\* C2: every path handed to a removal call names a location inside the
\* canonicalized root, nothing outside the root changes, and a traversal
\* pattern such as ../../*.t among valid patterns does not make run() fail
C2_PathContainment ==
    /\ \A k \in 1 .. Len(attempts) :
          LET a == Resolve(fs0, cwd, attempts[k].path, FALSE)
          IN  RootCanon.ok /\ a.ok /\ IsPrefix(RootLoc, a.loc)
    /\ \A l \in Locs : ~UnderRoot(l) => fs[l] = fs0[l]
    /\ ( /\ pc = "done"
         /\ RootCanon.ok
         /\ TraversalGlob \in {config.patterns[k] : k \in 1 .. Len(config.patterns)}
         /\ BadGlob \notin {config.patterns[k] : k \in 1 .. Len(config.patterns)}
         /\ BadGlob \notin {config.exclude_patterns[k] : k \in 1 .. Len(config.exclude_patterns)}
         /\ answer # "error" )
       => result = "Ok"

\* the root is named directly, not through a symlink
RootIsLink == SymlinkMetadata(fs0, cwd, config.path).kind = "symlink"

EagerAllRemoved ==
    /\ Finished
    /\ config.skip_confirmation
    /\ ~config.dry_run
    /\ failed_deletions = <<>>

\* C3 as stated: after an eager run in which every removal succeeded, every
\* file under the root that matches an include pattern and no exclude
\* pattern is gone, and every file that matches no include pattern remains
C3_AsStated ==
    EagerAllRemoved =>
        \A l \in FilesUnderRoot :
            /\ (Inc(l) /\ ~Exc(l)) => ~Exists(fs, l)
            /\ ~Inc(l) => Exists(fs, l)

\* C3 as amended: when the root is not itself a symlink, every file under the root that passes the lexical guard,
\* matches an include and no exclude pattern and passes the age filter is
\* gone; every file that matches no include pattern and lies in no
\* directory that passed those filters remains
C3_DeletionCorrectness ==
    (EagerAllRemoved /\ ~RootIsLink) =>
        \A l \in FilesUnderRoot :
            /\ Targeted(l) => ~Exists(fs, l)
            /\ ( /\ ~Inc(l)
                 /\ \A a \in Locs : (UnderRoot(a) /\ IsPrefix(a, l) /\ a # l) => ~Targeted(a) )
               => Exists(fs, l)

\* an eager run removed a matching file and left a non-matching file that
\* sits beside a removed directory
C3_Witness ==
    /\ EagerAllRemoved
    /\ ~RootIsLink
    /\ \E l \in FilesUnderRoot : Targeted(l) /\ ~Exists(fs, l)
    /\ \E l \in FilesUnderRoot : ~Inc(l) /\ Exists(fs, l)
    /\ \E l \in FilesUnderRoot : ~Inc(l) /\ ~Exists(fs, l)

\* C4: a file or directory under the root that matches an include and an
\* exclude pattern is never counted, buffered or handed to a removal, and
\* it still exists
C4_ExcludeOverridesInclude ==
    \A l \in Locs :
        ( /\ UnderRoot(l)
          /\ fs0[l].kind \in {"file", "dir"}
          /\ Inc(l)
          /\ Exc(l) )
        => /\ Exists(fs, l)
           /\ WalkPathOf(l) \notin PathsOf(targets) \cup PathsOf(pending)
           /\ WalkPathOf(l) \notin PathsOf(matched_items)
           /\ WalkPathOf(l) \notin PathsOf(attempts)

\* C5: the dry run and the real run of one configuration on one tree, the
\* real run eager or confirmed, end with the same matched entries, counter,
\* total size and per-pattern statistics
C5_DryRunEquivalence ==
    ( /\ run_no = 2
      /\ Finished
      /\ first.result = "Ok"
      /\ LET real == IF config.dry_run THEN first.answer ELSE answer
         IN  config.skip_confirmation \/ real = "yes" )
    => /\ counter = first.counter
       /\ size = first.size
       /\ stats = first.stats
       /\ matched_items = first.matched_items

\* one iteration of a bulk deletion that is not a dry run
BulkStep == pc = "deleting" /\ pending # <<>> /\ ~config.dry_run

\* the step made exactly one removal call, on the target t, and recorded
\* its failure, if it failed, exactly once
OneAttempt(t) ==
    /\ Len(attempts') = Len(attempts) + 1
    /\ SubSeq(attempts', 1, Len(attempts)) = attempts
    /\ attempts'[Len(attempts')].path = t.path
    /\ pending' = Tail(pending)
    /\ failed_deletions' =
          IF attempts'[Len(attempts')].err = "" THEN failed_deletions
          ELSE Append(failed_deletions,
                      [path |-> t.path, err |-> attempts'[Len(attempts')].err])

\* the step passed over the target without a removal call
PassedOver ==
    /\ attempts' = attempts
    /\ failed_deletions' = failed_deletions
    /\ fs' = fs
    /\ pending' = Tail(pending)

\* within one run, what a removal took away stays away
StaysRemoved ==
    run_no' = run_no => \A l \in Locs : ~Exists(fs, l) => ~Exists(fs', l)

\* a failed eager removal leaves the walk running on the remaining entries
EagerWalkGoesOn ==
    (pc = "walking" /\ Len(failed_deletions') > Len(failed_deletions))
    => /\ pc' = "walking"
       /\ Len(todo') >= Len(todo) - 1
       /\ SubSeq(todo', Len(todo') - Len(todo) + 2, Len(todo')) = Tail(todo)

\* C6 as stated: each iteration of a bulk deletion makes exactly one removal
\* attempt, on the next buffered target, whatever happened to the earlier
\* ones; a failure appends exactly one record; removed entries stay
\* removed; a failed eager removal does not stop the walk
C6_AsStated ==
    [][ /\ BulkStep => OneAttempt(Head(pending))
        /\ StaysRemoved
        /\ EagerWalkGoesOn ]_vars

\* C6 as amended: the same for buffered targets that are files, directories
\* or symlinks; a target of another type is passed over without a removal
\* attempt and without a failure record
C6_FailureIsolation ==
    [][ /\ BulkStep =>
              IF Head(pending).metadata.kind \in {"file", "dir", "symlink"}
              THEN OneAttempt(Head(pending))
              ELSE PassedOver
        /\ StaysRemoved
        /\ EagerWalkGoesOn ]_vars

\* a bulk deletion whose first removal failed and whose second succeeded
C6_Witness ==
    /\ pc = "done"
    /\ answer = "yes"
    /\ ~config.dry_run
    /\ Len(attempts) >= 2
    /\ attempts[1].err # ""
    /\ attempts[2].err = ""
    /\ Len(failed_deletions) = 1
    /\ failed_deletions[1].path = attempts[1].path

AllPatterns ==
    {config.patterns[k] : k \in 1 .. Len(config.patterns)}
        \cup {config.exclude_patterns[k] : k \in 1 .. Len(config.exclude_patterns)}

C8_RootValidation ==
    ~(RootCanon.ok /\ fs0[RootLoc].kind = "dir") =>
        /\ pc \in {"idle", "done"}
        /\ pc = "done" => result = "ConfigError(Invalid path)"
        /\ visited = {}
        /\ counter = 0
        /\ attempts = <<>>

\* C9: a negative answer ends the run with Ok, no removal call and every
\* buffered target still there; a failed prompt ends it with a configuration
\* error and no removal call; no removal of a buffered target happens
\* before the prompt, where it is required, returned true
C9_NoBulkDeletionWithoutYes ==
    /\ answer = "no" =>
          /\ pc = "done" /\ result = "Ok"
          /\ attempts = <<>>
          /\ fs = fs0
          /\ targets # <<>>
          /\ \A k \in 1 .. Len(targets) :
                Resolve(fs, cwd, targets[k].path, FALSE).ok
    /\ answer = "error" =>
          /\ pc = "done" /\ result = "ConfigError(Confirmation failed)"
          /\ attempts = <<>>
          /\ fs = fs0
    /\ pc = "confirming" => (attempts = <<>> /\ fs = fs0 /\ targets # <<>>)
    /\ (~config.skip_confirmation /\ (attempts # <<>> \/ fs # fs0)) => answer = "yes"

\* a real run with several buffered targets, declined at the prompt
C9_Witness ==
    /\ answer = "no"
    /\ pc = "done"
    /\ ~config.dry_run
    /\ Len(targets) >= 2

BrokenLinks ==
    {l \in Locs : /\ UnderRoot(l)
                  /\ fs0[l].kind = "symlink"
                  /\ Metadata(fs0, cwd, WalkPathOf(l)).kind = "none"}

\* the entry at l became a matched entry tagged "broken-symlink"
TaggedBroken(l) ==
    /\ counter >= 1
    /\ config.json_mode =>
          \E k \in 1 .. Len(matched_items) :
              /\ matched_items[k].path = WalkPathOf(l)
              /\ matched_items[k].pattern = BrokenSymlinkTag
    /\ config.stats_mode => BrokenSymlinkTag \in DOMAIN stats
    /\ DeletingRun => WalkPathOf(l) \in PathsOf(attempts)
    /\ (~DeletingRun /\ answer # "yes") => WalkPathOf(l) \in PathsOf(targets)

\* C10 as stated: with remove_broken_symlinks, every broken symlink the
\* walk reached is a matched entry tagged "broken-symlink" and, in a
\* deleting run, is removed, whatever the patterns and include_symlinks
C10_AsStated ==
    (Finished /\ config.remove_broken_symlinks) =>
        \A l \in BrokenLinks :
            WalkPathOf(l) \in visited =>
                /\ TaggedBroken(l)
                /\ DeletingRun => ~Exists(fs, l)

\* C10 as amended: the same for the broken symlinks whose walk path passes
\* the lexical guard and that the age filter does not discard; in a
\* deleting run the removal is attempted, and the link is gone unless
\* that removal is denied
C10_BrokenSymlinks ==
    (Finished /\ config.remove_broken_symlinks) =>
        \A l \in BrokenLinks :
            ( /\ WalkPathOf(l) \in visited
              /\ should_process(WalkPathOf(l))
              /\ ~TooRecent(config, fs0[l], now) )
            => /\ TaggedBroken(l)
               /\ (DeletingRun /\ ~fs0[l].locked) => ~Exists(fs, l)

\* a deleting run removed a broken symlink while symlinks were not
\* included and the link matched no include pattern or matched an exclude
C10_Witness ==
    /\ Finished
    /\ DeletingRun
    /\ config.remove_broken_symlinks
    /\ ~config.include_symlinks
    /\ \E l \in BrokenLinks :
          /\ ~Inc(l) \/ Exc(l)
          /\ TaggedBroken(l)
          /\ ~Exists(fs, l)

\* the walk is about to hand its next entry to handle_matched_entry, and the
\* entry's metadata can be read
NextIsMatch ==
    /\ pc = "walking"
    /\ todo # <<>>
    /\ MatchEntry(config, fs, cwd, base_path, Head(todo)).handle
    /\ SymlinkMetadata(fs, cwd, Head(todo).path).kind # "none"

\* the next entry has an elapsed time since its last modification: a
\* minimum age is configured, the modification time is known and not in the
\* future.  Time is counted in half seconds
NextHasAge ==
    /\ config.older_than_secs # NoAge
    /\ SymlinkMetadata(fs, cwd, Head(todo).path).mtime >= 0
    /\ SymlinkMetadata(fs, cwd, Head(todo).path).mtime <= now

NextElapsed == now - SymlinkMetadata(fs, cwd, Head(todo).path).mtime

\* the step counted the entry and handled it like any match
NextCounted ==
    /\ counter' = counter + 1
    /\ size' >= size
    /\ IF EagerMode(config)
       THEN /\ Len(attempts') = Len(attempts) + 1
            /\ attempts'[Len(attempts')].path = Head(todo).path
            /\ targets' = targets
       ELSE /\ Len(targets') = Len(targets) + 1
            /\ targets'[Len(targets')].path = Head(todo).path
            /\ attempts' = attempts
    /\ config.json_mode => Len(matched_items') = Len(matched_items) + 1

\* C11: with a minimum age of T seconds, a match whose elapsed time is
\* strictly less than T leaves counter, size, statistics, match list, target
\* buffer and filesystem as they were; a match whose elapsed time is T or
\* more, exactly T included, is counted and handled like any other match
C11_AgeFilter ==
    [][ (NextIsMatch /\ NextHasAge) =>
            IF NextElapsed < 2 * config.older_than_secs
            THEN /\ UNCHANGED job_vars
                 /\ UNCHANGED <<fs, attempts>>
            ELSE NextCounted ]_vars

\* a deleting run with a threshold of two seconds removed the one entry
\* that was modified exactly two seconds before
C11_Witness ==
    /\ Finished
    /\ DeletingRun
    /\ config.older_than_secs = 2
    /\ now - fs0[<<RootName, PycName>>].mtime = 4
    /\ counter = 1
    /\ ~Exists(fs, <<RootName, PycName>>)

RECURSIVE SumCounts(_, _)
SumCounts(st, ks) ==
    IF ks = {} THEN 0
    ELSE LET k == CHOOSE x \in ks : TRUE
         IN  st[k].count + SumCounts(st, ks \ {k})

RECURSIVE SumStatSizes(_, _)
SumStatSizes(st, ks) ==
    IF ks = {} THEN 0
    ELSE LET k == CHOOSE x \in ks : TRUE
         IN  st[k].size + SumStatSizes(st, ks \ {k})

\* C12: with stats_mode on, in every state of the run the per-pattern counts
\* sum to counter and the per-pattern sizes sum to size; with stats_mode off
\* the statistics map is empty
C12_StatsSum ==
    IF config.stats_mode
    THEN /\ SumCounts(stats, DOMAIN stats) = counter
         /\ SumStatSizes(stats, DOMAIN stats) = size
    ELSE DOMAIN stats = {}

\* a finished run with statistics for two patterns, one of them with more
\* than one entry
C12_Witness ==
    /\ Finished
    /\ config.stats_mode
    /\ Cardinality(DOMAIN stats) >= 2
    /\ \E k \in DOMAIN stats : stats[k].count >= 2
    /\ size > 0

\* the next entry of the walk passes every filter: it is handed to
\* handle_matched_entry, its metadata can be read and the age filter keeps it
NextPasses ==
    /\ NextIsMatch
    /\ ~(NextHasAge /\ NextElapsed < 2 * config.older_than_secs)

\* the size of the entry at path p as the tree stands: the length of a file,
\* the summed length of what a directory holds, 0 for anything else
EntrySize(p) ==
    LET r == Resolve(fs, cwd, p, FALSE)
    IN  IF ~r.ok THEN 0
        ELSE IF fs[r.loc].kind = "file" THEN fs[r.loc].size
        ELSE IF fs[r.loc].kind = "dir"
        THEN SumSizes(fs, {l \in Locs : IsPrefix(r.loc, l) /\ Exists(fs, l)})
        ELSE 0

\* C13: counter and size grow by one and by the entry's size exactly when
\* the walk meets an entry that passes every filter, and no other step of
\* the run changes them: not a removal that succeeds or fails, not the
\* prompt's answer, not the end of the run; in the run of a new job, before
\* the buffer is taken, counter is the number of buffered targets
C13_AggregatesFixedAtMatch ==
    [][ /\ IF pc = "walking" /\ todo # <<>>
           THEN IF NextPasses
                THEN /\ counter' = counter + 1
                     /\ size' = size + EntrySize(Head(todo).path)
                ELSE UNCHANGED <<counter, size>>
           ELSE run_no' = run_no => UNCHANGED <<counter, size>>
        /\ (run_no # 4 /\ ~EagerMode(config) /\ answer # "yes") =>
              counter = Len(targets) ]_vars

\* a confirmed bulk deletion in which one removal failed and another
\* succeeded, with the aggregates still those of the walk
C13_Witness ==
    /\ Finished
    /\ answer = "yes"
    /\ ~config.dry_run
    /\ failed_deletions # <<>>
    /\ \E k \in 1 .. Len(attempts) : attempts[k].err = ""
    /\ counter = Len(matched_items)
    /\ counter >= 2
    /\ size > 0

\* C14 as stated: the fresh job run after a completed deleting run counts
\* nothing, attempts no removal, records no failure and succeeds
C14_AsStated ==
    run_no = 3 =>
        /\ counter = 0 /\ size = 0
        /\ attempts = <<>>
        /\ failed_deletions = <<>>
        /\ pc = "done" => result = "Ok"

\* the symlink at l had a target before the first run and has none after it
NewlyBroken(l) ==
    /\ first.fs0[l].kind = "symlink"
    /\ Metadata(first.fs0, cwd, AbsPath(l)).kind # "none"
    /\ fs0[l].kind = "symlink"
    /\ Metadata(fs0, cwd, AbsPath(l)).kind = "none"

\* the first run left nothing for a second one: no removal failed, no entry
\* of a type remove_path skips matches the patterns, no entry the age
\* filter discarded has reached the minimum age since, and no symlink lost
\* its target to the run while broken symlinks are to be removed
LeftNothing ==
    /\ first.failed_deletions = <<>>
    /\ \A l \in Locs :
          (UnderRoot(l) /\ fs0[l].kind = "other") => ~(Inc(l) /\ ~Exc(l))
    /\ \A l \in Locs :
          TooRecent(config, fs0[l], first.now) => TooRecent(config, fs0[l], now)
    /\ config.remove_broken_symlinks => \A l \in Locs : ~NewlyBroken(l)

\* C14 as amended: when the first run left nothing, the fresh job counts
\* nothing, buffers nothing, attempts no removal and records no failure; it
\* succeeds when the root still resolves, and fails with the invalid-path
\* error when the first run removed the root itself
C14_Idempotence ==
    (run_no = 3 /\ LeftNothing) =>
        /\ counter = 0 /\ size = 0
        /\ targets = <<>> /\ matched_items = <<>>
        /\ attempts = <<>>
        /\ failed_deletions = <<>>
        /\ pc = "done" =>
              result = IF RootCanon.ok THEN "Ok" ELSE "ConfigError(Invalid path)"

\* a fresh job finished its walk of the tree left by a run that had removed
\* several entries, and found nothing
C14_Witness ==
    /\ run_no = 3
    /\ Finished
    /\ LeftNothing
    /\ first.counter >= 2
    /\ Len(first.attempts) >= 2
    /\ Cardinality(visited) >= 2
    /\ counter = 0

\* the errors that end run() before anything is removed
FatalErrors ==
    {ErrorOf("ConfigError(Invalid path)"), ErrorOf("GlobError"),
     ErrorOf("ConfigError(Confirmation failed)")}

\* C15: at the end of a run the caller gets an error whenever the failure
\* list is non-empty and success when it is empty and run() returned Ok; the
\* error for failed deletions carries their number and is none of the fatal
\* errors, which come before any removal and, in the run of a new job, with
\* an empty failure list
C15_FailureSignalling ==
    pc = "done" =>
        LET out == ExitResult(result, failed_deletions)
        IN  /\ failed_deletions # <<>> => out.variant # "Ok"
            /\ (failed_deletions = <<>> /\ result = "Ok") => out = NoError
            /\ (failed_deletions # <<>> /\ result = "Ok") =>
                  /\ out \notin FatalErrors
                  /\ out.n = Len(failed_deletions)
            /\ result # "Ok" =>
                  /\ out \in FatalErrors
                  /\ run_no # 4 => failed_deletions = <<>>
                  /\ attempts = <<>>

\* a run that returned Ok with two failed removals and one that succeeded
C15_Witness ==
    /\ pc = "done"
    /\ result = "Ok"
    /\ Len(failed_deletions) = 2
    /\ \E k \in 1 .. Len(attempts) : attempts[k].err = ""
    /\ ExitResult(result, failed_deletions).variant = "ConfigError"

RECURSIVE SumRecordSizes(_, _)
SumRecordSizes(seq, n) ==
    IF n = 0 THEN 0 ELSE seq[n].size + SumRecordSizes(seq, n - 1)

\* the pattern a match record may carry for the walk path p: the
\* broken-symlink tag, or the first include pattern that matches p
AttributedTo(pattern, p) ==
    \/ pattern = BrokenSymlinkTag /\ config.remove_broken_symlinks
    \/ \E k \in 1 .. Len(config.patterns) :
          /\ config.patterns[k] = pattern
          /\ GlobMatches(pattern, p)
          /\ \A j \in 1 .. k - 1 : ~GlobMatches(config.patterns[j], p)

\* C16: in JSON mode the document of to_json has one match record per
\* counted entry, with the entry's path, size and attributed pattern; their
\* number is summary.total_count = counter and their sizes sum to
\* summary.total_size = size; summary.dry_run is the configured flag;
\* failures has one record per entry of failed_deletions, in order; without
\* a match the count is 0 and the list empty
C16_JsonConsistency ==
    config.json_mode =>
        /\ Len(to_json.matches) = to_json.summary.total_count
        /\ to_json.summary.total_count = counter
        /\ SumRecordSizes(to_json.matches, Len(to_json.matches)) = to_json.summary.total_size
        /\ to_json.summary.total_size = size
        /\ to_json.summary.dry_run = config.dry_run
        /\ \A k \in 1 .. Len(to_json.matches) :
              /\ to_json.matches[k].path = PathStr(matched_items[k].path)
              /\ matched_items[k].path \in visited
              /\ AttributedTo(to_json.matches[k].pattern, matched_items[k].path)
        /\ Len(to_json.failures) = Len(failed_deletions)
        /\ \A k \in 1 .. Len(failed_deletions) :
              /\ to_json.failures[k].path = PathStr(failed_deletions[k].path)
              /\ to_json.failures[k].error = failed_deletions[k].err
        /\ counter = 0 => to_json.matches = <<>>

\* a real run in JSON mode with several matches under different patterns
\* and a failed removal
C16_Witness ==
    /\ Finished
    /\ config.json_mode
    /\ ~config.dry_run
    /\ Len(to_json.matches) >= 2
    /\ \E j, k \in 1 .. Len(to_json.matches) :
          to_json.matches[j].pattern # to_json.matches[k].pattern
    /\ Len(to_json.failures) >= 1

\* the walk is at a symlink whose target resolves
NextIsLiveLink ==
    /\ pc = "walking"
    /\ todo # <<>>
    /\ SymlinkMetadata(fs, cwd, Head(todo).path).kind = "symlink"
    /\ Metadata(fs, cwd, Head(todo).path).kind # "none"

\* C17: with include_symlinks off, the walk passes a symlink whose target
\* resolves without counting it, buffering it or removing it, whatever the
\* patterns and remove_broken_symlinks say; no removal is ever attempted on
\* a path that was a symlink with a resolving target when the walk met it
C17_SymlinksSkippedByDefault ==
    [][ (NextIsLiveLink /\ ~config.include_symlinks) =>
            /\ UNCHANGED job_vars
            /\ UNCHANGED <<fs, attempts, pending>>
            /\ Head(todo).path \notin PathsOf(targets) \cup PathsOf(pending) ]_vars

\* a deleting run with remove_broken_symlinks on went past a symlink that
\* matches an include pattern and whose target resolves, left it alone and
\* removed something else
C17_Witness ==
    /\ Finished
    /\ DeletingRun
    /\ ~config.include_symlinks
    /\ config.remove_broken_symlinks
    /\ counter >= 1
    /\ \E l \in Locs :
          /\ UnderRoot(l)
          /\ fs0[l].kind = "symlink"
          /\ Metadata(fs0, cwd, AbsPath(l)).kind # "none"
          /\ Inc(l) /\ ~Exc(l)
          /\ WalkPathOf(l) \in visited
          /\ fs[l] = fs0[l]
          /\ WalkPathOf(l) \notin PathsOf(attempts)

\* C18: when run() starts, counter, size, statistics, failure list, match
\* list and target buffer are empty, also when it is called a second time
\* on the same job
C18_ResetPerRun ==
    [][ (pc = "idle" /\ pc' # "idle") =>
            /\ counter' = 0 /\ size' = 0
            /\ stats' = <<>>
            /\ failed_deletions' = <<>>
            /\ matched_items' = <<>>
            /\ targets' = <<>> ]_vars

\* the input, trimmed, is a decimal number that fits u64 followed by one of
\* the five unit letters
WellFormedDuration(cs) ==
    /\ Len(cs) >= 2
    /\ \A i \in 1 .. Len(cs) - 1 : IsDigit(cs[i])
    /\ Ge(U64Max, Norm([i \in 1 .. Len(cs) - 1 |-> DigitVal(cs[i])]))
    /\ cs[Len(cs)] \in {"s", "m", "h", "d", "w"}

\* the number of seconds the claim promises for a well-formed input
PromisedSeconds(cs) ==
    LET n == Norm([i \in 1 .. Len(cs) - 1 |-> DigitVal(cs[i])])
        u == cs[Len(cs)]
    IN  CASE u = "s" -> n
          [] u = "m" -> MulSmall(n, 60)
          [] u = "h" -> MulSmall(n, 3600)
          [] u = "d" -> MulSmall(n, 86400)
          [] OTHER -> MulSmall(n, 604800)

\* C19: parse_duration returns Ok(n * k) for every input that, trimmed, is a
\* decimal u64 number n followed by a unit letter with multiplier k, for
\* every such n, and a ConfigError for every other input (an input whose
\* number carries a sign is left aside)
C19_ParseDuration ==
    (call.fn = "parse_duration" /\ ret # NoRet) =>
        LET duration == Trim(call.arg)
        IN  IF WellFormedDuration(duration)
            THEN ret = DurationOk(PromisedSeconds(duration))
            ELSE (duration = <<>> \/ duration[1] # "+") => ret = DurationErr

\* the lexical ancestors of a path, nearest first: the path, its parent, ...
Ancestors(p) ==
    [i \in 1 .. Len(p.comps) + 1 |-> [p EXCEPT !.comps = SubSeq(@, 1, Len(@) - i + 1)]]

\* the chain of a search: the ancestors of the start up to the filesystem
\* root, those of a relative start going on with the parents of the working
\* directory
SearchChain(wd, start) ==
    IF start.abs THEN Ancestors(start)
    ELSE Ancestors(start) \o Tail(Ancestors(AbsPath(wd)))

\* the directory holds a regular file called name
Holds(d, name) == Metadata(fs, cwd, JoinPath(d, name)).kind = "file"

\* the candidate in the nearest directory of the chain that holds the file
Nearest(chain, name) ==
    LET hits == {i \in 1 .. Len(chain) : Holds(chain[i], name)}
    IN  IF hits = {} THEN None
        ELSE Some(JoinPath(chain[CHOOSE i \in hits : \A j \in hits : i <= j], name))

\* C20: find_config_upward returns the candidate in the nearest directory of
\* the chain start, parent(start), ..., filesystem root that holds a regular
\* file called name, a directory of that name not counting, or None when no
\* directory of the chain holds one; discover_config returns that result
\* for .rclean.toml when it exists and else the global config file, if any
C20_ConfigDiscovery ==
    /\ (call.fn = "find_config_upward" /\ ret # NoRet) =>
            ret = Nearest(SearchChain(cwd, call.dir), call.arg)
    /\ (call.fn = "discover_config" /\ ret # NoRet) =>
            LET upward == Nearest(SearchChain(cwd, call.dir), SETTINGS_FILENAME)
                global == JoinPath(JoinPath(ConfigDir, RcleanName), ConfigTomlName)
            IN  IF upward # None THEN ret = upward
                ELSE IF call.config_dir # <<>> /\ Metadata(fs, cwd, global).kind = "file"
                     THEN ret = Some(global)
                     ELSE ret = None

\* the phases of a run, in order
Rank(phase) ==
    CASE phase = "idle" -> 0
      [] phase = "walking" -> 1
      [] phase = "confirming" -> 2
      [] phase = "deleting" -> 3
      [] OTHER -> 4

\* the configuration deletes inline during the walk
InlineConfig == config.skip_confirmation /\ ~config.dry_run

\* C21: within a run the phases idle, walking, confirming, deleting, done
\* only move forward; a run that is not eager attempts no removal and
\* changes nothing on disk while it walks; a step that buffers an entry does
\* not remove it; an eager run never buffers, confirms or bulk-deletes
C21_PhaseOrdering ==
    [][ /\ (run_no' = run_no) => Rank(pc') >= Rank(pc)
        /\ (pc = "walking" /\ ~InlineConfig) => (attempts' = attempts /\ fs' = fs)
        /\ (pc = "walking" /\ targets' # targets) => (attempts' = attempts /\ fs' = fs)
        /\ (run_no' = run_no /\ InlineConfig) =>
              (targets' = <<>> /\ pc' \notin {"confirming", "deleting"})
        /\ (pc' = "deleting" /\ pc # "deleting") => (todo = <<>> /\ attempts = <<>>)
      ]_vars

\* a confirmed bulk deletion has removed something after the walk, the
\* phases having been gone through to the end
C21_Witness ==
    /\ pc = "done"
    /\ run_no = 1
    /\ answer = "yes"
    /\ ~InlineConfig
    /\ attempts # <<>>
    /\ Len(attempts) >= 2

\* the include patterns that match a path, by position
MatchingPositions(p) ==
    {k \in 1 .. Len(config.patterns) : GlobMatches(config.patterns[k], p)}

\* the path is matched by more than one include pattern, the first and the
\* last of them being different patterns
Tied(p) ==
    \E i \in MatchingPositions(p), j \in MatchingPositions(p) :
        i < j /\ config.patterns[i] # config.patterns[j]

\* C22: a match record that does not carry the broken-symlink tag carries
\* the earliest-declared include pattern that matches its path; the tag
\* "unknown" is never recorded; every key of the statistics is a configured
\* include pattern or "broken-symlink", and it is the earliest match of
\* some counted path
C22_AttributionTieBreak ==
    /\ \A k \in 1 .. Len(matched_items) :
          LET item == matched_items[k]
              hits == MatchingPositions(item.path)
          IN  /\ item.pattern # UnknownTag
              /\ item.pattern # BrokenSymlinkTag =>
                    /\ hits # {}
                    /\ \E i \in hits : /\ \A j \in hits : i <= j
                                       /\ item.pattern = config.patterns[i]
    /\ \A key \in DOMAIN stats :
          /\ key # UnknownTag
          /\ \/ key = BrokenSymlinkTag
             \/ \E i \in 1 .. Len(config.patterns) : config.patterns[i] = key
    /\ (config.stats_mode /\ config.json_mode) =>
          DOMAIN stats = {matched_items[k].pattern : k \in 1 .. Len(matched_items)}

\* an entry that two different include patterns match has been recorded
C22_Witness ==
    /\ pc = "done"
    /\ run_no = 1
    /\ \E k \in 1 .. Len(matched_items) :
          /\ Tied(matched_items[k].path)
          /\ matched_items[k].pattern # BrokenSymlinkTag
    /\ Cardinality(DOMAIN stats) >= 2

\* the entry the walk visits next is not a symlink for the walk, passes the
\* lexical guard, is not taken by the broken-symlink branch, matches the
\* include set and no exclude pattern, and cannot be canonicalized
NextFailsCanonicalize ==
    /\ pc = "walking"
    /\ todo # <<>>
    /\ LET entry == Head(todo)
       IN  /\ entry.ty # "symlink"
           /\ should_process(entry.path)
           /\ ~(/\ config.remove_broken_symlinks
                /\ SymlinkMetadata(fs, cwd, entry.path).kind = "symlink"
                /\ Metadata(fs, cwd, entry.path).kind = "none")
           /\ SetMatches(config.patterns, entry.path)
           /\ ~SetMatches(config.exclude_patterns, entry.path)
           /\ ~Canonicalize(fs, cwd, entry.path).ok

\* C23: a non-symlink candidate that matched the include set and cannot be
\* canonicalized is skipped: its visit counts nothing, buffers nothing and
\* removes nothing, and the walk goes on
C23_CanonicalizeFailureSkips ==
    [][ (NextFailsCanonicalize /\ todo' # todo) =>
            /\ counter' = counter
            /\ size' = size
            /\ targets' = targets
            /\ matched_items' = matched_items
            /\ attempts' = attempts
            /\ fs' = fs
            /\ pc' = "walking"
      ]_vars

\* the path is "." or "..", or its first component is ".."
LexicallyRejected(p) ==
    /\ ~p.abs
    /\ \/ p.comps = <<Dot>>
       \/ p.comps # <<>> /\ p.comps[1] = DotDot

\* the next entry passes every filter other than the lexical guard and can
\* be counted: it is not a symlink, matches an include pattern and no
\* exclude pattern, resolves to a place under the root, and no minimum age
\* is configured
NextPassesOtherFilters ==
    LET entry == Head(todo)
        at == Resolve(fs, cwd, entry.path, FALSE)
    IN  /\ at.ok
        /\ NodeAt(fs, at.loc).kind \in {"file", "dir"}
        /\ entry.ty = NodeAt(fs, at.loc).kind
        /\ SetMatches(config.patterns, entry.path)
        /\ ~SetMatches(config.exclude_patterns, entry.path)
        /\ StartsWith(AbsPath(at.loc), base_path)
        /\ config.older_than_secs = NoAge

RootHasLeadingDotDot == ~config.path.abs /\ config.path.comps # <<>> /\ config.path.comps[1] = DotDot

\* C24: every walk path is the configured root path followed by the entry's
\* relative part; the visit of an entry whose walk path is ".", ".." or
\* begins with a ".." component counts, buffers and removes nothing, and an
\* entry that passes the other filters is counted when its walk path is not
\* of that kind; a run whose root path begins with ".." keeps counter = 0
\* and attempts no removal
C24_LexicalGuard ==
    [][ /\ (pc = "walking" /\ todo # <<>> /\ todo' # todo) =>
              LET p == Head(todo).path
              IN  /\ p.abs = config.path.abs
                  /\ IsPrefix(config.path.comps, p.comps)
                  /\ LexicallyRejected(p) =>
                        /\ UNCHANGED job_vars
                        /\ UNCHANGED <<fs, attempts>>
                  /\ (~LexicallyRejected(p) /\ NextPassesOtherFilters) =>
                        counter' = counter + 1
        /\ RootHasLeadingDotDot =>
              /\ counter' = 0
              /\ targets' = <<>>
              /\ attempts' = <<>>
              /\ fs' = fs0'
      ]_vars

\* a deleting run on the root ../r, from inside r, has walked the whole tree,
\* which holds entries that match the patterns, and has counted nothing
C24_Witness ==
    /\ pc = "done"
    /\ result = "Ok"
    /\ run_no = 1
    /\ config.path = RelPath(<<DotDot, RootName>>)
    /\ ~config.dry_run
    /\ config.skip_confirmation
    /\ Cardinality(visited) >= 3
    /\ \E p \in visited : SetMatches(config.patterns, p)
    /\ counter = 0

\* no recursive removal failed, in this run or in the first: a failed
\* remove_dir_all leaves an unspecified part of the directory behind
NoPartialRemoval ==
    /\ \A k \in 1 .. Len(attempts) :
          ~(attempts[k].op = "remove_dir_all" /\ attempts[k].err # "")
    /\ \A k \in 1 .. Len(first.attempts) :
          ~(first.attempts[k].op = "remove_dir_all" /\ first.attempts[k].err # "")

\* the two configurations differ in nothing but the observational flags
SameButView(c, d) ==
    [c EXCEPT !.stats_mode = TRUE, !.json_mode = TRUE, !.show_progress = TRUE]
        = [d EXCEPT !.stats_mode = TRUE, !.json_mode = TRUE, !.show_progress = TRUE]

\* C25: two finished runs on the same tree whose configurations differ only
\* in show_progress, stats_mode or json_mode, the prompt answering the same,
\* end with the same result, counter and size, the same buffered targets,
\* the same removal calls with the same outcomes, the same failure records
\* and the same tree; where both keep statistics or a match list, these are
\* equal too
C25_ObservationalFlags ==
    ( /\ run_no = 5
      /\ pc = "done"
      /\ answer = first.answer
      /\ NoPartialRemoval )
    => /\ SameButView(config, first.config)
       /\ fs0 = first.fs0
       /\ result = first.result
       /\ counter = first.counter
       /\ size = first.size
       /\ targets = first.targets
       /\ attempts = first.attempts
       /\ failed_deletions = first.failed_deletions
       /\ fs = first.fs
       /\ (config.stats_mode /\ first.config.stats_mode) => stats = first.stats
       /\ (config.json_mode /\ first.config.json_mode) =>
             matched_items = first.matched_items

\* a deleting run and its twin with other observational flags have both
\* removed entries and recorded a failure
C25_Witness ==
    /\ run_no = 5
    /\ pc = "done"
    /\ answer = first.answer
    /\ NoPartialRemoval
    /\ config.json_mode # first.config.json_mode
    /\ config.stats_mode # first.config.stats_mode
    /\ config.show_progress # first.config.show_progress
    /\ ~config.dry_run
    /\ counter >= 2
    /\ fs # fs0
    /\ failed_deletions # <<>>

\* the walk is about to visit its depth-0 entry, the root, a directory
NextIsRootDir ==
    /\ pc = "walking"
    /\ todo # <<>>
    /\ Head(todo).depth = 0
    /\ Head(todo).ty = "dir"

\* C26: whatever the spelling of the root path and the patterns, the visit
\* of the walk's depth-0 entry, the root directory itself, counts nothing,
\* buffers nothing and removes nothing
C26_RootNeverTarget ==
    [][ (NextIsRootDir /\ todo' # todo) =>
            /\ counter' = counter
            /\ size' = size
            /\ targets' = targets
            /\ matched_items' = matched_items
            /\ attempts' = attempts
            /\ fs' = fs
      ]_vars

\* every removal is permitted on the tree the run started from
AllPermitted == \A l \in DOMAIN fs0 : ~fs0[l].locked

\* C27: a confirmed bulk deletion of a newly constructed job, on a tree where
\* every removal is permitted and whose root no include pattern matches,
\* ends with an empty failure list and is reported as success
C27_CleanBulkDeletion ==
    ( /\ pc = "done"
      /\ run_no # 4
      /\ answer = "yes"
      /\ ~config.dry_run
      /\ AllPermitted
      /\ ~SetMatches(config.patterns, config.path) )
    => /\ failed_deletions = <<>>
       /\ ExitResult(result, failed_deletions) = NoError

\* what a path named at the start of the run: the kind of its entry, links
\* not followed, and whether it still names an entry now
KindAtStart(p) == SymlinkMetadata(fs0, cwd, p).kind
StillThere(p) == SymlinkMetadata(fs, cwd, p).kind # "none"

\* C28: at the end of a deleting run of a newly constructed job, eager or
\* confirmed, every counted entry that was a file, a directory or a symlink
\* is gone or has a record in failed_deletions; the match list names the
\* counted entries
C28_NoSilentSurvivor ==
    ( /\ pc = "done"
      /\ result = "Ok"
      /\ run_no \in {1, 2, 3, 5}
      /\ DeletingRun
      /\ config.json_mode )
    => /\ Len(matched_items) = counter
       /\ \A k \in 1 .. Len(matched_items) :
             LET p == matched_items[k].path
             IN  KindAtStart(p) \in {"file", "dir", "symlink"} =>
                    \/ ~StillThere(p)
                    \/ p \in PathsOf(failed_deletions)

\* an eager run has counted an entry that is still there, with its failure
\* recorded, and another that is gone
C28_Witness ==
    /\ pc = "done"
    /\ result = "Ok"
    /\ run_no = 1
    /\ EagerMode(config)
    /\ config.json_mode
    /\ \E k \in 1 .. Len(matched_items) :
          /\ StillThere(matched_items[k].path)
          /\ matched_items[k].path \in PathsOf(failed_deletions)
    /\ \E k \in 1 .. Len(matched_items) :
          /\ KindAtStart(matched_items[k].path) \in {"file", "dir", "symlink"}
          /\ ~StillThere(matched_items[k].path)

\* the entries whose bytes the match of path p stands for, on the tree the
\* run started from: a regular file itself; everything at or under a
\* directory that is not a directory; nothing for any other match
BytesOf(p) ==
    LET r == Resolve(fs0, cwd, p, FALSE)
    IN  IF ~r.ok THEN {}
        ELSE IF fs0[r.loc].kind = "file" THEN {r.loc}
        ELSE IF fs0[r.loc].kind = "dir"
        THEN {l \in Subtree(fs0, r.loc) : fs0[l].kind # "dir"}
        ELSE {}

\* C29: at the end of a run of a newly constructed job, on a tree where
\* every removal is permitted and whose root no include pattern matches,
\* the total size is the summed length of the distinct files at or under
\* the matched entries, each file counted once
C29_NoDoubleCounting ==
    ( /\ pc = "done"
      /\ result = "Ok"
      /\ run_no \in {1, 2, 3}
      /\ config.json_mode
      /\ AllPermitted
      /\ ~SetMatches(config.patterns, config.path) )
    => size = SumSizes(fs0, UNION {BytesOf(matched_items[k].path) :
                                      k \in 1 .. Len(matched_items)})

\* the modification time of the next entry cannot be read, or lies after
\* the current clock
NextHasNoAge ==
    LET mtime == SymlinkMetadata(fs, cwd, Head(todo).path).mtime
    IN  mtime < 0 \/ mtime > now

====
